---- MODULE Spec2Model ----
(***************************************************************************)
(* Verification model of the Sentra dashboard core: the gas field packer   *)
(* (lib/userOpLegacy and the Playground page), the paymaster client cache  *)
(* (lib/viem, lib/api), the MintSponsoredCard Prepare/Send pipeline and    *)
(* the Eip7702 page pipeline.                                              *)
(*                                                                         *)
(* bigint values are big-endian sequences of hexadecimal digits without    *)
(* leading zeros (0n is the empty sequence).  Hex strings are sequences of *)
(* characters: the digits 0..15 and the letter x, written X.               *)
(***************************************************************************)
EXTENDS Integers, Sequences, FiniteSets, TLC

VARIABLES
    \* ---- gas field packer: the arguments of a call and what it returned
    callGasLimit,          \* first numeric argument (bigint or Undefined)
    verificationGasLimit,  \* second numeric argument (bigint or Undefined)
    paymaster,             \* paymaster argument (hex string or Undefined)
    data,                  \* data argument (hex string or Undefined)
    packed,                \* [fn, ok, hex]: the last call and its outcome
    \* ---- session and module-level state of lib/viem
    token,                 \* useAuth().token: Null or the signed-in user's token
    devToken,              \* import.meta.env.VITE_DEV_TOKEN: Null or a token
    paymasterClients,      \* the Map of lib/viem: key -> Authorization header
    requests,              \* the signer / paymaster / bundler requests issued so far
    \* ---- the Eip7702 page
    eip,                   \* its React state (useState / useRef values)
    eipSign,               \* the running handleSignAuthorization, if any
    eipPrepare,            \* the running handlePrepareUserOperation, if any
    eipSubmit,             \* the running handleSubmitUserOperation, if any
    \* ---- the MintSponsoredCard component
    mint,                  \* its React state and props
    mintPrepares,          \* the running prepareUserOperation calls
    mintSends,             \* the running sendPreparedUserOperation calls
    \* ---- the Simulator page
    sim,                   \* its React state: form and results
    simRuns,               \* the running handleSimulate calls
    \* ---- lib/selectors and the gas scaling functions
    input,                 \* the arguments of a call
    output                 \* what the call returned or threw

packVars == <<callGasLimit, verificationGasLimit, paymaster, data, packed>>
pmVars == <<token, devToken, paymasterClients, requests>>
eipVars == <<eip, eipSign, eipPrepare, eipSubmit>>
mintVars == <<mint, mintPrepares, mintSends>>
simVars == <<sim, simRuns>>
fnVars == <<input, output>>

vars == <<packVars, pmVars, eipVars, mintVars, simVars, fnVars>>

-----------------------------------------------------------------------------
(* Bounds of the model.                                                    *)

\* numeric samples have 0..SmallLen hex digits, or lie around 2^128
SmallLen == 1
\* numeric samples reach OverLen hex digits beyond the 32 of a 128-bit field
OverLen == 1
\* paymasterData samples have 0..MaxDataBytes bytes
MaxDataBytes == 2
\* the request log of the client-cache specification holds MaxRequests entries
MaxRequests == 2
\* the request log of the Eip7702 page holds MaxEipRequests entries: a Send
\* starts only while the log leaves room for its three requests, and a
\* Prepare issues its requests only while the log leaves room
MaxEipRequests == 6
\* the account nonces getTransactionCount may return are 0..MaxNonce
MaxNonce == 1
\* runs of prepareUserOperation / sendPreparedUserOperation in flight at once on the Mint card
MaxMintPrepares == 1
MaxMintSends == 2
\* the small bases the scaling functions are applied to are 0..MaxBase
MaxBase == 7
\* generated arguments of the lib/selectors functions have 0..MaxCsvLen characters
MaxCsvLen == 5

-----------------------------------------------------------------------------
(* Characters, hex strings and bigints.                                    *)

\* undefined: a value that is no hex string and no bigint
Undefined == <<-1>>
X == 16
HexDigit == 0..15

Zeros(n) == [i \in 1..n |-> 0]
Fs(n) == [i \in 1..n |-> 15]
Pow16(n) == IF n = 0 THEN <<>> ELSE <<1>> \o Zeros(n - 1)

RECURSIVE Strip(_)
Strip(s) == IF s = <<>> THEN <<>>
            ELSE IF Head(s) = 0 THEN Strip(Tail(s)) ELSE s

Last(s, n) == IF Len(s) <= n THEN s ELSE SubSeq(s, Len(s) - n + 1, Len(s))

PadStart(s, n) == IF Len(s) >= n THEN s ELSE Zeros(n - Len(s)) \o s

\* value << 128n
Shl128(v) == IF v = <<>> THEN <<>> ELSE v \o Zeros(32)

\* value & ((1n << 128n) - 1n)
Mask128(v) == Strip(Last(v, 32))

Bit(d, i) == (d \div (2 ^ i)) % 2
OrBit(p, q) == IF p + q > 0 THEN 1 ELSE 0
OrDigit(p, q) == OrBit(Bit(p, 0), Bit(q, 0)) + 2 * OrBit(Bit(p, 1), Bit(q, 1))
                 + 4 * OrBit(Bit(p, 2), Bit(q, 2)) + 8 * OrBit(Bit(p, 3), Bit(q, 3))

Max(m, n) == IF m >= n THEN m ELSE n

\* p | q on bigints
BitOr(p, q) ==
    LET n == Max(Len(p), Len(q))
        pp == PadStart(p, n)
        qq == PadStart(q, n)
    IN  Strip([i \in 1..n |-> OrDigit(pp[i], qq[i])])

Threw == [ok |-> FALSE, hex |-> <<>>]
Returned(h) == [ok |-> TRUE, hex |-> h]

\* viem toHex(value, { size }): throws when the value needs more than
\* size bytes, else "0x" and the value left-padded to size bytes
toHex(value, size) ==
    IF Len(value) > 2 * size THEN Threw
    ELSE Returned(<<0, X>> \o PadStart(value, 2 * size))

\* str.replace(/^0x/, "")
Strip0x(s) == IF Len(s) >= 2 /\ s[1] = 0 /\ s[2] = X THEN SubSeq(s, 3, Len(s)) ELSE s

-----------------------------------------------------------------------------
(* lib/userOpLegacy and pages/Playground: the packing functions.           *)

packAccountGasLimits(cgl, vgl) ==
    toHex(BitOr(Shl128(vgl), Mask128(cgl)), 32)

packAccountGasLimitsPlayground(cgl, vgl) ==
    toHex(BitOr(Shl128(cgl), Mask128(vgl)), 32)

\* packGasFees with the priority fee left unshifted
packGasFees_NoShift(maxFeePerGas, maxPriorityFeePerGas) ==
    toHex(BitOr(Mask128(maxPriorityFeePerGas), Mask128(maxFeePerGas)), 32)

packGasFees(maxFeePerGas, maxPriorityFeePerGas) ==
    toHex(BitOr(Shl128(Mask128(maxPriorityFeePerGas)), Mask128(maxFeePerGas)), 32)

\* value ?? 0n
OrZero(value) == IF value = Undefined THEN <<>> ELSE value

pad16(value) ==
    LET h == toHex(OrZero(value), 16)
    IN  IF h.ok THEN Returned(Strip0x(h.hex)) ELSE Threw

\* buildPaymasterAndData with the two gas limits written in the other order
buildPaymasterAndData_SwappedGas(pm, vgl, postOp, d) ==
    IF pm = Undefined \/ pm = <<>> THEN Returned(<<0, X>>)
    ELSE LET addr == PadStart(Strip0x(pm), 40)
             verGas == pad16(vgl)
             postGas == pad16(postOp)
             suffix == Strip0x(IF d = Undefined THEN <<0, X>> ELSE d)
         IN  IF ~verGas.ok \/ ~postGas.ok THEN Threw
             ELSE Returned(<<0, X>> \o addr \o postGas.hex \o verGas.hex \o suffix)

buildPaymasterAndData(pm, vgl, postOp, d) ==
    IF pm = Undefined \/ pm = <<>> THEN Returned(<<0, X>>)
    ELSE LET addr == PadStart(Strip0x(pm), 40)
             verGas == pad16(vgl)
             postGas == pad16(postOp)
             suffix == Strip0x(IF d = Undefined THEN <<0, X>> ELSE d)
         IN  IF ~verGas.ok \/ ~postGas.ok THEN Threw
             ELSE Returned(<<0, X>> \o addr \o verGas.hex \o postGas.hex \o suffix)

-----------------------------------------------------------------------------
(* Inputs of the packer calls.                                             *)

SampleLens == (0..SmallLen) \cup ((32 - SmallLen)..(32 + OverLen))

\* per length: all digits f, a one followed by zeros, and one + 2^(4(n-1))
BigintSamples ==
    {Fs(n) : n \in SampleLens} \cup {Pow16(n) : n \in SampleLens}
    \cup {Pow16(n - 1) \o <<1>> : n \in {m \in SampleLens : m >= 2}}

Address(k) == <<0, X>> \o [i \in 1..40 |-> (i * k) % 16]
PaymasterSamples == {Undefined, Address(0), Address(7)}

DataBytes(n) == <<0, X>> \o [i \in 1..(2 * n) |-> (10 + i) % 16]
DataSamples == {Undefined} \cup {DataBytes(n) : n \in 0..MaxDataBytes}

NoCall == [fn |-> "none", ok |-> TRUE, hex |-> <<>>]
Call(fn, r) == [fn |-> fn, ok |-> r.ok, hex |-> r.hex]

\* null / undefined where a string is expected
Null == "<null>"
NoAuthorization == <<>>
Bearer(t) == <<"Bearer", t>>

PackIdle ==
    /\ callGasLimit = Undefined /\ verificationGasLimit = Undefined
    /\ paymaster = Undefined /\ data = Undefined
    /\ packed = NoCall

PmIdle ==
    /\ token = Null /\ devToken = Null
    /\ paymasterClients = <<>>
    /\ requests = <<>>

\* null where an object is expected
NullObject == [null |-> TRUE]
Idle == [pc |-> "idle"]

EipIdle == eip = NullObject /\ eipSign = Idle /\ eipPrepare = Idle /\ eipSubmit = Idle
MintIdle == mint = NullObject /\ mintPrepares = {} /\ mintSends = {}
SimIdle == sim = NullObject /\ simRuns = {}
FnIdle == input = Undefined /\ output = NullObject

InitPack ==
    /\ callGasLimit \in BigintSamples \cup {Undefined}
    /\ verificationGasLimit \in BigintSamples \cup {Undefined}
    /\ paymaster \in PaymasterSamples
    /\ data \in DataSamples
    /\ packed = NoCall
    /\ PmIdle /\ EipIdle /\ MintIdle /\ SimIdle /\ FnIdle

Numeric == callGasLimit # Undefined /\ verificationGasLimit # Undefined

CallPackAccountGasLimits ==
    /\ packed.fn = "none" /\ Numeric
    /\ packed' = Call("packAccountGasLimits",
                      packAccountGasLimits(callGasLimit, verificationGasLimit))
    /\ UNCHANGED <<callGasLimit, verificationGasLimit, paymaster, data, pmVars,
                   eipVars, mintVars, simVars, fnVars>>

CallPackAccountGasLimitsPlayground ==
    /\ packed.fn = "none" /\ Numeric
    /\ packed' = Call("packAccountGasLimitsPlayground",
                      packAccountGasLimitsPlayground(callGasLimit, verificationGasLimit))
    /\ UNCHANGED <<callGasLimit, verificationGasLimit, paymaster, data, pmVars,
                   eipVars, mintVars, simVars, fnVars>>

\* packGasFees(maxFeePerGas = callGasLimit slot, maxPriorityFeePerGas = other slot)
CallPackGasFees ==
    /\ packed.fn = "none" /\ Numeric
    /\ packed' = Call("packGasFees", packGasFees(callGasLimit, verificationGasLimit))
    /\ UNCHANGED <<callGasLimit, verificationGasLimit, paymaster, data, pmVars,
                   eipVars, mintVars, simVars, fnVars>>

\* buildPaymasterAndData(paymaster, verificationGasLimit, postOpGasLimit = first slot, data)
CallBuildPaymasterAndData ==
    /\ packed.fn = "none"
    /\ packed' = Call("buildPaymasterAndData",
                      buildPaymasterAndData(paymaster, verificationGasLimit,
                                            callGasLimit, data))
    /\ UNCHANGED <<callGasLimit, verificationGasLimit, paymaster, data, pmVars,
                   eipVars, mintVars, simVars, fnVars>>

NextPack ==
    \/ CallPackAccountGasLimits
    \/ CallPackAccountGasLimitsPlayground
    \/ CallPackGasFees
    \/ CallBuildPaymasterAndData

SpecPack == InitPack /\ [][NextPack]_vars

-----------------------------------------------------------------------------
(* Properties of the packer.                                               *)

\* the value fits in 128 bits
InRange(v) == Len(v) <= 32
\* an optional numeric argument that is omitted or fits in 128 bits
InRangeOpt(v) == v = Undefined \/ InRange(v)

Body == Strip0x(packed.hex)
High128 == Strip(SubSeq(Body, 1, 32))
Low128 == Strip(SubSeq(Body, 33, 64))
Is32Bytes == packed.ok /\ Len(packed.hex) = 66 /\ SubSeq(packed.hex, 1, 2) = <<0, X>>

InRangePairs == {pr \in BigintSamples \X BigintSamples : InRange(pr[1]) /\ InRange(pr[2])}

\* what each in-range pair of samples packs to
AccountGasLimitsOf == {<<pr, packAccountGasLimits(pr[1], pr[2]).hex>> : pr \in InRangePairs}
GasFeesOf == {<<pr, packGasFees(pr[1], pr[2]).hex>> : pr \in InRangePairs}

\* C1: every packAccountGasLimits implementation (lib/userOpLegacy and the
\* Playground page) returns, for arguments below 2^128, 32 bytes whose high
\* 128 bits are verificationGasLimit and whose low 128 bits are callGasLimit.
C1_EveryImplementationVerificationHigh ==
    (/\ packed.fn \in {"packAccountGasLimits", "packAccountGasLimitsPlayground"}
     /\ InRange(callGasLimit) /\ InRange(verificationGasLimit))
    => (Is32Bytes /\ High128 = verificationGasLimit /\ Low128 = callGasLimit)

\* C2: for arguments below 2^128 the halves of packAccountGasLimits(a, b)
\* give back b (high) and a (low), the halves of packGasFees(maxFee,
\* maxPriorityFee) give back maxPriorityFee (high) and maxFee (low), and no
\* other in-range pair packs to the same 32 bytes.
C2_PackRoundTrip ==
    /\ (/\ packed.fn = "packAccountGasLimits"
        /\ InRange(callGasLimit) /\ InRange(verificationGasLimit))
       => /\ Is32Bytes
          /\ High128 = verificationGasLimit /\ Low128 = callGasLimit
          /\ \A e \in AccountGasLimitsOf :
                e[2] = packed.hex => e[1] = <<callGasLimit, verificationGasLimit>>
    /\ (/\ packed.fn = "packGasFees"
        /\ InRange(callGasLimit) /\ InRange(verificationGasLimit))
       => /\ Is32Bytes
          /\ High128 = verificationGasLimit /\ Low128 = callGasLimit
          /\ \A e \in GasFeesOf :
                e[2] = packed.hex => e[1] = <<callGasLimit, verificationGasLimit>>

\* C2 witness: packGasFees was applied to two different non-zero fees that
\* both use all 128 bits of their half
C2_Witness ==
    /\ packed.fn = "packGasFees"
    /\ callGasLimit = Fs(32) /\ verificationGasLimit = Pow16(32)
    /\ packed.ok

\* C3: packAccountGasLimits, packGasFees and buildPaymasterAndData (with a
\* paymaster) fail whenever a numeric argument is >= 2^128; none returns a
\* value in which the argument was reduced modulo 2^128.
C3_NoSilentWrap ==
    /\ (/\ packed.fn \in {"packAccountGasLimits", "packGasFees"}
        /\ (~InRange(callGasLimit) \/ ~InRange(verificationGasLimit)))
       => ~packed.ok
    /\ (/\ packed.fn = "buildPaymasterAndData" /\ paymaster # Undefined
        /\ (~InRangeOpt(callGasLimit) \/ ~InRangeOpt(verificationGasLimit)))
       => ~packed.ok

DataDigits == IF data = Undefined THEN <<>> ELSE Strip0x(data)

\* C4: buildPaymasterAndData returns "0x" without a paymaster, whatever the
\* other arguments; with a 20-byte paymaster it returns 20 + 16 + 16 +
\* len(data) bytes: the address, verificationGasLimit and postOpGasLimit
\* each zero-padded to 16 bytes (an omitted one as 16 zero bytes), then data.
C4_PaymasterAndDataLayout ==
    packed.fn = "buildPaymasterAndData" =>
        /\ paymaster = Undefined => (packed.ok /\ packed.hex = <<0, X>>)
        /\ (/\ paymaster # Undefined
            /\ InRangeOpt(callGasLimit) /\ InRangeOpt(verificationGasLimit))
           => /\ packed.ok
              /\ SubSeq(packed.hex, 1, 2) = <<0, X>>
              /\ Len(Body) = 2 * (20 + 16 + 16) + Len(DataDigits)
              /\ SubSeq(Body, 1, 40) = Strip0x(paymaster)
              /\ SubSeq(Body, 41, 72) = PadStart(OrZero(verificationGasLimit), 32)
              /\ SubSeq(Body, 73, 104) = PadStart(OrZero(callGasLimit), 32)
              /\ SubSeq(Body, 105, Len(Body)) = DataDigits

\* C4 witness: a paymaster, an omitted verification gas limit, a full-width
\* post-op gas limit and two bytes of data
C4_Witness ==
    /\ packed.fn = "buildPaymasterAndData" /\ packed.ok
    /\ paymaster = Address(7)
    /\ verificationGasLimit = Undefined /\ callGasLimit = Fs(32)
    /\ data = DataBytes(2)

-----------------------------------------------------------------------------
(* lib/viem getPaymasterClient and its callers.                            *)

Tokens == {"t1", "t2"}
DevTokens == {Null, "dev"}

\* an argument left out: getPaymasterClient()
UndefinedToken == "<undefined>"

\* const key = token ?? "__anon__"
ClientKey(tok) == IF tok \in {Null, UndefinedToken} THEN "__anon__" ELSE tok

\* the headers of a client built for tok: Authorization is Bearer tok when
\* tok is truthy, overwritten by Bearer VITE_DEV_TOKEN when that is set
NewClientHeaders(tok, dev) ==
    IF dev # Null /\ dev # "" THEN Bearer(dev)
    ELSE IF tok \notin {Null, UndefinedToken, ""} THEN Bearer(tok)
    ELSE NoAuthorization

\* the Map after getPaymasterClient(tok)
ClientsAfter(clients, tok, dev) ==
    IF ClientKey(tok) \in DOMAIN clients THEN clients
    ELSE (ClientKey(tok) :> NewClientHeaders(tok, dev)) @@ clients

\* the client getPaymasterClient(tok) returns, as the header it sends
getPaymasterClient(clients, tok, dev) == ClientsAfter(clients, tok, dev)[ClientKey(tok)]

\* the token each call site passes to getPaymasterClient, for user token tok
TokenArgument(site, tok) ==
    CASE site = "api" -> Null
      [] site = "MintSponsoredCard" -> Null
      [] site = "Eip7702" -> tok
      [] site = "Simulator" -> tok

PaymasterMethods == {"pm_getPaymasterStubData", "pm_getPaymasterData"}

\* a paymaster request of a call site on behalf of the current user
PaymasterRequest(site, method, op) ==
    [site |-> site, method |-> method, op |-> op, user |-> token,
     authorization |-> getPaymasterClient(paymasterClients, TokenArgument(site, token), devToken),
     payload |-> NullObject]

\* a request to the bundler or the signer (no paymaster client involved),
\* with the value it carries or returns
OtherRequest(site, method, op, payload) ==
    [site |-> site, method |-> method, op |-> op, user |-> token,
     authorization |-> NoAuthorization, payload |-> payload]

IssuePaymasterRequest(site, method, op) ==
    /\ requests' = Append(requests, PaymasterRequest(site, method, op))
    /\ paymasterClients' = ClientsAfter(paymasterClients, TokenArgument(site, token), devToken)

InitPm ==
    /\ PackIdle /\ EipIdle /\ MintIdle /\ SimIdle /\ FnIdle
    /\ token \in Tokens \cup {Null}
    /\ devToken \in DevTokens
    /\ paymasterClients = <<>>
    /\ requests = <<>>

\* AuthProvider.setAndPersist(t)
Login(t) ==
    /\ token # t
    /\ token' = t
    /\ UNCHANGED <<devToken, paymasterClients, requests, packVars, eipVars, mintVars, simVars, fnVars>>

\* AuthProvider.logout()
Logout ==
    /\ token # Null
    /\ token' = Null
    /\ UNCHANGED <<devToken, paymasterClients, requests, packVars, eipVars, mintVars, simVars, fnVars>>

\* api.getPaymasterStub / api.getPaymasterData (requestPaymasterStubData,
\* requestPaymasterData)
RequestViaApi ==
    \E method \in PaymasterMethods :
        /\ Len(requests) < MaxRequests
        /\ IssuePaymasterRequest("api", method, 0)
        /\ UNCHANGED <<token, devToken, packVars, eipVars, mintVars, simVars, fnVars>>

\* MintSponsoredCard: prepareUserOperation / sendPreparedUserOperation
RequestViaMintSponsoredCard ==
    \E method \in PaymasterMethods :
        /\ Len(requests) < MaxRequests
        /\ IssuePaymasterRequest("MintSponsoredCard", method, 0)
        /\ UNCHANGED <<token, devToken, packVars, eipVars, mintVars, simVars, fnVars>>

\* Eip7702: handlePrepareUserOperation / handleSubmitUserOperation
RequestViaEip7702 ==
    \E method \in PaymasterMethods :
        /\ Len(requests) < MaxRequests
        /\ IssuePaymasterRequest("Eip7702", method, 0)
        /\ UNCHANGED <<token, devToken, packVars, eipVars, mintVars, simVars, fnVars>>

\* Simulator handleSimulate: returns early without a token
RequestViaSimulator ==
    \E method \in PaymasterMethods :
        /\ Len(requests) < MaxRequests
        /\ token # Null
        /\ IssuePaymasterRequest("Simulator", method, 0)
        /\ UNCHANGED <<token, devToken, packVars, eipVars, mintVars, simVars, fnVars>>

NextPm ==
    \/ \E t \in Tokens : Login(t)
    \/ Logout
    \/ RequestViaApi
    \/ RequestViaMintSponsoredCard
    \/ RequestViaEip7702
    \/ RequestViaSimulator

SpecPm == InitPm /\ [][NextPm]_vars

\* C6: every pm_getPaymasterStubData / pm_getPaymasterData request issued for
\* a signed-in user with token t goes through a client whose Authorization
\* header is exactly "Bearer t", whatever getPaymasterClient calls came before.
C6_RequestsCarryUserToken ==
    \A i \in 1..Len(requests) :
        (requests[i].method \in PaymasterMethods /\ requests[i].user # Null)
        => requests[i].authorization = Bearer(requests[i].user)

-----------------------------------------------------------------------------
(* Text of form fields and addresses: sequences of character codes.        *)

RECURSIVE TrimStart(_)
\* white space String.prototype.trim removes: tab, line feed, carriage return, space
IsSpace(c) == c \in {9, 10, 13, 32}
TrimStart(s) == IF s # <<>> /\ IsSpace(Head(s)) THEN TrimStart(Tail(s)) ELSE s
RECURSIVE TrimEnd(_)
TrimEnd(s) == IF s # <<>> /\ IsSpace(s[Len(s)]) THEN TrimEnd(SubSeq(s, 1, Len(s) - 1)) ELSE s
Trim(s) == TrimEnd(TrimStart(s))

IsDigitChar(c) == c \in 48..57
IsHexChar(c) == c \in (48..57) \cup (65..70) \cup (97..102)

\* /^0x[a-fA-F0-9]{40}$/.test(value.trim())
isEthAddress(value) ==
    LET t == Trim(value)
    IN  /\ Len(t) = 42
        /\ t[1] = 48 /\ t[2] = 120
        /\ \A i \in 3..42 : IsHexChar(t[i])

toLowerCase(s) == [i \in 1..Len(s) |-> IF s[i] \in 65..90 THEN s[i] + 32 ELSE s[i]]

\* "0x" followed by 40 times the character c
Addr(c) == <<48, 120>> \o [i \in 1..40 |-> c]

\* the text of an address field: empty, or an address
AddressFieldSamples == {<<>>, Addr(97)}

\* Number(text) for the texts a nonce field holds: a decimal number, else NaN
NaN == -1
RECURSIVE DecimalValue(_)
DecimalValue(s) == IF s = <<>> THEN 0 ELSE 10 * DecimalValue(SubSeq(s, 1, Len(s) - 1)) + (s[Len(s)] - 48)
NumberOf(s) == IF s # <<>> /\ \A i \in 1..Len(s) : IsDigitChar(s[i]) THEN DecimalValue(s) ELSE NaN

\* the text of the nonce field: empty (auto detect), "1", "x"
NonceInputSamples == {<<>>, <<49>>, <<120>>}

-----------------------------------------------------------------------------
(* Gas estimates and scaling.                                              *)

Scaling100 == [call |-> 100, verification |-> 100, preVerification |-> 100]
PercentSamples == {100, 125}
EstimateSamples ==
    {[callGasLimit |-> 7, verificationGasLimit |-> 2000, preVerificationGas |-> 300]}

\* bigint division: the quotient truncated toward zero (b > 0)
BigIntDiv(a, b) == IF a >= 0 THEN a \div b ELSE -((-a) \div b)

\* hooks/usePlaygroundStoredState: (base * BigInt(percent)) / 100n
scaleGasValue(base, percent) == BigIntDiv(base * percent, 100)

scaleGas_Inverse(base, percent) == BigIntDiv(base * (200 - percent), 100)

\* MintSponsoredCard: (base * BigInt(percent)) / 100n
scaleGas(base, percent) == BigIntDiv(base * percent, 100)

\* arguments of the scaling functions: a base of 0..MaxBase or a default gas
\* limit, and percentages around 0, 100 and the ends of the slider
BaseSamples == (0..MaxBase) \cup {500000, 1000000}
PercentArguments == {-150, -100, -1, 0, 1, 50, 99, 100, 101, 125, 200}

InitScale ==
    /\ PackIdle /\ PmIdle /\ EipIdle /\ MintIdle /\ SimIdle
    /\ \E base \in BaseSamples, p1 \in PercentArguments, p2 \in PercentArguments :
          input = [base |-> base, p1 |-> p1, p2 |-> p2]
    /\ output = NullObject

ScaleFrame == UNCHANGED <<packVars, pmVars, eipVars, mintVars, simVars, input>>

\* scaleGas(base, p1) and scaleGas(base, p2)
CallScaleGas ==
    /\ output' = [fn |-> "scaleGas", r1 |-> scaleGas(input.base, input.p1),
                  r2 |-> scaleGas(input.base, input.p2)]
    /\ ScaleFrame

\* scaleGasValue(base, p1) and scaleGasValue(base, p2)
CallScaleGasValue ==
    /\ output' = [fn |-> "scaleGasValue", r1 |-> scaleGasValue(input.base, input.p1),
                  r2 |-> scaleGasValue(input.base, input.p2)]
    /\ ScaleFrame

NextScale == CallScaleGas \/ CallScaleGasValue

SpecScale == InitScale /\ [][NextScale]_vars

\* C20: for a non-negative base and percentages p1 <= p2, the value scaled
\* by p1 is at most the value scaled by p2 (scaleGas and scaleGasValue).
C20_ScalingMonotone ==
    (output # NullObject /\ input.base >= 0 /\ input.p1 <= input.p2)
    => output.r1 <= output.r2

\* a positive base scaled by two different percentages, one of them negative
C20_Witness ==
    /\ output # NullObject /\ output.fn = "scaleGas"
    /\ input.base = 7 /\ input.p1 = -150 /\ input.p2 = 125
    /\ output.r1 = -10 /\ output.r2 = 8

\* { ...baseOp, field: value, ... }
Spread(baseOp, fields) ==
    [f \in DOMAIN baseOp \cup DOMAIN fields |->
        IF f \in DOMAIN fields THEN fields[f] ELSE baseOp[f]]

\* Eip7702 submit: opWithScaling
opWithScalingOf(baseOp, estimates, scaling) ==
    Spread(baseOp,
           [callGasLimit |-> scaleGasValue(estimates.callGasLimit, scaling.call),
            verificationGasLimit |->
                scaleGasValue(estimates.verificationGasLimit, scaling.verification),
            preVerificationGas |->
                scaleGasValue(estimates.preVerificationGas, scaling.preVerification)])

scaledOp_SharedPercent(baseOp, estimates, scaling) ==
    Spread(baseOp,
           [callGasLimit |-> scaleGas(estimates.callGasLimit, scaling.call),
            verificationGasLimit |-> scaleGas(estimates.verificationGasLimit, scaling.call),
            preVerificationGas |-> scaleGas(estimates.preVerificationGas, scaling.call)])

\* MintSponsoredCard send: scaledOp
scaledOp(baseOp, estimates, scaling) ==
    Spread(baseOp,
           [callGasLimit |-> scaleGas(estimates.callGasLimit, scaling.call),
            verificationGasLimit |->
                scaleGas(estimates.verificationGasLimit, scaling.verification),
            preVerificationGas |->
                scaleGas(estimates.preVerificationGas, scaling.preVerification)])

\* positions of the gas sliders (min 50, max 200, step 5)
SliderPercents == {50, 55, 95, 100, 125, 200}
\* what bundler.estimateUserOperationGas answers
EstimateArguments ==
    {[callGasLimit |-> 7, verificationGasLimit |-> 2000, preVerificationGas |-> 300],
     [callGasLimit |-> 0, verificationGasLimit |-> 1, preVerificationGas |-> 99],
     [callGasLimit |-> 21001, verificationGasLimit |-> 500000,
      preVerificationGas |-> 46113]}
ScalingArguments ==
    [call : SliderPercents, verification : SliderPercents,
     preVerification : SliderPercents]
\* the prepared operation the limits are written into
BaseOpSample ==
    [op |-> 1, callGasLimit |-> 0, verificationGasLimit |-> 0, preVerificationGas |-> 0]

\* the estimates, the three percentages, and the same percentages after one
\* slider was moved
InitSendScaling ==
    /\ PackIdle /\ PmIdle /\ EipIdle /\ MintIdle /\ SimIdle
    /\ \E estimates \in EstimateArguments, scaling \in ScalingArguments,
          pct \in SliderPercents :
          \E moved \in {[scaling EXCEPT !.call = pct],
                         [scaling EXCEPT !.verification = pct],
                         [scaling EXCEPT !.preVerification = pct]} :
              input = [estimates |-> estimates, scaling |-> scaling, moved |-> moved]
    /\ output = NullObject

\* the scaled operation of sendPreparedUserOperation, for both slider settings
CallScaledOp ==
    /\ output = NullObject
    /\ output' = [fn |-> "scaledOp",
                  op |-> scaledOp(BaseOpSample, input.estimates, input.scaling),
                  opMoved |-> scaledOp(BaseOpSample, input.estimates, input.moved)]
    /\ ScaleFrame

\* the scaled operation of handleSubmitUserOperation, for both slider settings
CallOpWithScaling ==
    /\ output = NullObject
    /\ output' = [fn |-> "opWithScaling",
                  op |-> opWithScalingOf(BaseOpSample, input.estimates, input.scaling),
                  opMoved |-> opWithScalingOf(BaseOpSample, input.estimates, input.moved)]
    /\ ScaleFrame

NextSendScaling == CallScaledOp \/ CallOpWithScaling

SpecSendScaling == InitSendScaling /\ [][NextSendScaling]_vars

\* v is the floor of base * percent / 100, and is base when percent is 100
IsFloorOfScaled(v, base, percent) ==
    /\ v * 100 <= base * percent
    /\ base * percent < (v + 1) * 100
    /\ percent = 100 => v = base

LimitsScaledPerField(op, estimates, scaling) ==
    /\ IsFloorOfScaled(op.callGasLimit, estimates.callGasLimit, scaling.call)
    /\ IsFloorOfScaled(op.verificationGasLimit, estimates.verificationGasLimit,
                       scaling.verification)
    /\ IsFloorOfScaled(op.preVerificationGas, estimates.preVerificationGas,
                       scaling.preVerification)

\* C19: each of the three gas limits of the operation Send submits is the
\* floor of its own estimate times its own percentage over 100, and the
\* estimate itself at 100 percent; moving one slider leaves the limits of
\* the other two fields as they were.
C19_LimitsScaledPerField ==
    output # NullObject =>
        /\ LimitsScaledPerField(output.op, input.estimates, input.scaling)
        /\ LimitsScaledPerField(output.opMoved, input.estimates, input.moved)
        /\ input.moved.call = input.scaling.call =>
               output.opMoved.callGasLimit = output.op.callGasLimit
        /\ input.moved.verification = input.scaling.verification =>
               output.opMoved.verificationGasLimit = output.op.verificationGasLimit
        /\ input.moved.preVerification = input.scaling.preVerification =>
               output.opMoved.preVerificationGas = output.op.preVerificationGas
        /\ output.op.op = BaseOpSample.op

\* call 7 at 125 percent, verification 2000 at 100 percent, pre-verification
\* 300 at 125 percent; then the call slider is moved to 50 percent
C19_Witness ==
    /\ output # NullObject /\ output.fn = "scaledOp"
    /\ input.scaling = [call |-> 125, verification |-> 100, preVerification |-> 125]
    /\ input.moved = [call |-> 50, verification |-> 100, preVerification |-> 125]
    /\ output.op.callGasLimit = 8
    /\ output.op.verificationGasLimit = 2000
    /\ output.op.preVerificationGas = 375
    /\ output.opMoved.callGasLimit = 3
    /\ output.opMoved.verificationGasLimit = 2000
    /\ output.opMoved.preVerificationGas = 375

-----------------------------------------------------------------------------
(* The Eip7702 page.                                                       *)

SIMPLE_7702_ACCOUNT ==
    <<48, 120, 101, 54, 67, 97, 101, 56, 51, 66, 100, 69, 48, 54, 69, 52, 99, 51, 48,
      53, 53, 51, 48, 101, 49, 57, 57, 68, 55, 50, 49, 55, 102, 52, 50, 56, 48, 56, 53,
      53, 53, 66>>

\* tenderlyTestNet.id, the default of the chain id field
TenderlyChainId == 111222111

\* account.signAuthorization({ contractAddress, chainId, nonce }): the
\* address as given, and a signature determined by the signed values
signAuthorization(contractAddress, chainId, nonce) ==
    [chainId |-> chainId, address |-> contractAddress, nonce |-> nonce,
     r |-> <<"r", chainId, nonce>>, s |-> <<"s", chainId, nonce>>, yParity |-> nonce % 2]

\* { ...authorization, address: authorization.address?.toLowerCase?.() ?? authorization.address }
normalizedAuth(authorization) ==
    [authorization EXCEPT !.address = toLowerCase(authorization.address)]

InitEipState ==
    [authorization |-> NullObject, preparedOp |-> NullObject,
     preparedUnsignedOp |-> NullObject, gasEstimates |-> NullObject,
     gasScaling |-> Scaling100, preparedContext |-> NullObject,
     authStatus |-> "", payloadStatus |-> "", submitStatus |-> "",
     authLoading |-> FALSE, payloadLoading |-> FALSE, submitLoading |-> FALSE,
     smartAccountRef |-> NullObject,
     entryPoint |-> <<>>, approveSpender |-> <<>>, nonceInput |-> <<>>]

InitEip ==
    /\ PackIdle /\ MintIdle /\ SimIdle /\ FnIdle
    /\ token \in {Null, "t1"} /\ devToken = Null
    /\ paymasterClients = <<>> /\ requests = <<>>
    /\ \E ep \in AddressFieldSamples, sp \in AddressFieldSamples :
          eip = [InitEipState EXCEPT !.entryPoint = ep, !.approveSpender = sp]
    /\ eipSign = Idle /\ eipPrepare = Idle /\ eipSubmit = Idle

EipFrame == UNCHANGED <<packVars, mintVars, simVars, fnVars, token, devToken>>

\* the fields of Step 1 and Step 2
EditEipField ==
    /\ \/ \E v \in AddressFieldSamples : eip' = [eip EXCEPT !.entryPoint = v]
       \/ \E v \in AddressFieldSamples : eip' = [eip EXCEPT !.approveSpender = v]
       \/ \E v \in NonceInputSamples : eip' = [eip EXCEPT !.nonceInput = v]
    /\ eip' # eip
    /\ UNCHANGED <<eipSign, eipPrepare, eipSubmit, paymasterClients, requests>>
    /\ EipFrame

\* a gas slider, shown once gasEstimates and preparedUnsignedOp are set
EditEipGasScaling ==
    /\ eip.gasEstimates # NullObject /\ eip.preparedUnsignedOp # NullObject
    /\ \E pct \in PercentSamples :
          \/ eip' = [eip EXCEPT !.gasScaling.call = pct]
          \/ eip' = [eip EXCEPT !.gasScaling.verification = pct]
          \/ eip' = [eip EXCEPT !.gasScaling.preVerification = pct]
    /\ eip' # eip
    /\ UNCHANGED <<eipSign, eipPrepare, eipSubmit, paymasterClients, requests>>
    /\ EipFrame

\* ---- handleSignAuthorization

\* the click, up to the first await (or through catch/finally when the
\* nonce text is no number)
SignAuthorizationClick ==
    /\ ~eip.authLoading
    /\ LET cleared == [eip EXCEPT !.authorization = NullObject, !.preparedOp = NullObject,
                                  !.authStatus = "", !.authLoading = TRUE]
       IN  IF Len(Trim(eip.nonceInput)) > 0
           THEN IF NumberOf(eip.nonceInput) = NaN
                THEN /\ eip' = [cleared EXCEPT !.authStatus = "error", !.authLoading = FALSE]
                     /\ UNCHANGED eipSign
                ELSE /\ eip' = [cleared EXCEPT !.authStatus = "signing"]
                     /\ eipSign' = [pc |-> "signAuthorization",
                                    nonce |-> NumberOf(eip.nonceInput)]
           ELSE /\ eip' = cleared
                /\ eipSign' = [pc |-> "getTransactionCount"]
    /\ UNCHANGED <<eipPrepare, eipSubmit, paymasterClients, requests>>
    /\ EipFrame

SignNonceReturn ==
    /\ eipSign.pc = "getTransactionCount"
    /\ \E n \in 0..MaxNonce : eipSign' = [pc |-> "signAuthorization", nonce |-> n]
    /\ eip' = [eip EXCEPT !.authStatus = "signing"]
    /\ UNCHANGED <<eipPrepare, eipSubmit, paymasterClients, requests>>
    /\ EipFrame

SignAuthorizationReturn ==
    /\ eipSign.pc = "signAuthorization"
    /\ LET signature == signAuthorization(SIMPLE_7702_ACCOUNT, TenderlyChainId, eipSign.nonce)
       IN  eip' = [eip EXCEPT !.authorization = signature]
    /\ eipSign' = [pc |-> "recoverAuthorizationAddress"]
    /\ UNCHANGED <<eipPrepare, eipSubmit, paymasterClients, requests>>
    /\ EipFrame

\* recoverAuthorizationAddress returned or threw (caught and logged)
SignRecoverReturn ==
    /\ eipSign.pc = "recoverAuthorizationAddress"
    /\ eip' = [eip EXCEPT !.authStatus = "signed", !.authLoading = FALSE]
    /\ eipSign' = Idle
    /\ UNCHANGED <<eipPrepare, eipSubmit, paymasterClients, requests>>
    /\ EipFrame

\* getTransactionCount or signAuthorization threw: catch, finally
SignFail ==
    /\ eipSign.pc \in {"getTransactionCount", "signAuthorization"}
    /\ eip' = [eip EXCEPT !.authStatus = "error", !.authLoading = FALSE]
    /\ eipSign' = Idle
    /\ UNCHANGED <<eipPrepare, eipSubmit, paymasterClients, requests>>
    /\ EipFrame

\* ---- handlePrepareUserOperation

PrepareAwaits ==
    {"toSimpleSmartAccount", "recoverAuthorizationAddress", "prepareUserOperation",
     "getPaymasterStubData", "getPaymasterData", "estimateUserOperationGas"}

\* the click: the resets, the three checks, then up to the first await
PrepareUserOperationClick ==
    /\ ~eip.payloadLoading
    /\ Len(requests) < MaxEipRequests
    /\ LET cleared == [eip EXCEPT !.preparedOp = NullObject,
                                  !.preparedUnsignedOp = NullObject,
                                  !.preparedContext = NullObject,
                                  !.gasEstimates = NullObject,
                                  !.gasScaling = Scaling100,
                                  !.payloadStatus = ""]
       IN  IF eip.authorization = NullObject
           THEN /\ eip' = [cleared EXCEPT !.payloadStatus = "sign first"]
                /\ UNCHANGED eipPrepare
           ELSE IF eip.entryPoint = <<>> \/ ~isEthAddress(eip.entryPoint)
           THEN /\ eip' = [cleared EXCEPT !.payloadStatus = "entry point required"]
                /\ UNCHANGED eipPrepare
           ELSE IF eip.approveSpender = <<>> \/ ~isEthAddress(eip.approveSpender)
           THEN /\ eip' = [cleared EXCEPT !.payloadStatus = "spender required"]
                /\ UNCHANGED eipPrepare
           ELSE /\ eip' = [cleared EXCEPT !.payloadStatus = "preparing",
                                          !.payloadLoading = TRUE]
                /\ eipPrepare' = [pc |-> "toSimpleSmartAccount",
                                  op |-> Len(requests) + 1,
                                  authorization |-> eip.authorization,
                                  entryPoint |-> eip.entryPoint]
    /\ UNCHANGED <<eipSign, eipSubmit, paymasterClients, requests>>
    /\ EipFrame

PrepareAccountReturn ==
    /\ eipPrepare.pc = "toSimpleSmartAccount"
    /\ eipPrepare' = [eipPrepare EXCEPT !.pc = "recoverAuthorizationAddress"]
    /\ UNCHANGED <<eip, eipSign, eipSubmit, paymasterClients, requests>>
    /\ EipFrame

\* recoverAuthorizationAddress returned or threw (caught and logged)
PrepareRecoverReturn ==
    /\ eipPrepare.pc = "recoverAuthorizationAddress"
    /\ eipPrepare' = [eipPrepare EXCEPT !.pc = "prepareUserOperation"]
    /\ UNCHANGED <<eip, eipSign, eipSubmit, paymasterClients, requests>>
    /\ EipFrame

\* bundler.prepareUserOperation returned: getPaymasterClient(token), then
\* the pm_getPaymasterStubData request
PrepareBundlerReturn ==
    /\ eipPrepare.pc = "prepareUserOperation"
    /\ Len(requests) < MaxEipRequests
    /\ eip' = [eip EXCEPT !.payloadStatus = "bundler prepared"]
    /\ IssuePaymasterRequest("Eip7702", "pm_getPaymasterStubData", eipPrepare.op)
    /\ eipPrepare' = [eipPrepare EXCEPT !.pc = "getPaymasterStubData"]
    /\ UNCHANGED <<eipSign, eipSubmit>>
    /\ EipFrame

\* the stub arrived: the pm_getPaymasterData request
PrepareStubReturn ==
    /\ eipPrepare.pc = "getPaymasterStubData"
    /\ Len(requests) < MaxEipRequests
    /\ IssuePaymasterRequest("Eip7702", "pm_getPaymasterData", eipPrepare.op)
    /\ eipPrepare' = [eipPrepare EXCEPT !.pc = "getPaymasterData"]
    /\ UNCHANGED <<eip, eipSign, eipSubmit>>
    /\ EipFrame

\* the paymaster data arrived: the bundler's gas estimate is requested
PrepareDataReturn ==
    /\ eipPrepare.pc = "getPaymasterData"
    /\ Len(requests) < MaxEipRequests
    /\ eip' = [eip EXCEPT !.payloadStatus = "paymaster attached"]
    /\ requests' = Append(requests,
                          OtherRequest("Eip7702", "eth_estimateUserOperationGas",
                                       eipPrepare.op, NullObject))
    /\ eipPrepare' = [eipPrepare EXCEPT !.pc = "estimateUserOperationGas"]
    /\ UNCHANGED <<eipSign, eipSubmit, paymasterClients>>
    /\ EipFrame

\* the estimate arrived: the prepared operation is stored
PrepareEstimateReturn ==
    /\ eipPrepare.pc = "estimateUserOperationGas"
    /\ \E estimateResult \in EstimateSamples :
          LET opWithEstimates ==
                  [op |-> eipPrepare.op,
                   callGasLimit |-> estimateResult.callGasLimit,
                   verificationGasLimit |-> estimateResult.verificationGasLimit,
                   preVerificationGas |-> estimateResult.preVerificationGas,
                   authorization |-> normalizedAuth(eipPrepare.authorization)]
          IN  /\ eip' = [eip EXCEPT !.gasEstimates = estimateResult,
                                    !.smartAccountRef = [entryPoint |-> eipPrepare.entryPoint],
                                    !.preparedUnsignedOp = opWithEstimates,
                                    !.preparedOp = opWithEstimates,
                                    !.preparedContext = [entryPoint |-> eipPrepare.entryPoint,
                                                         chainId |-> TenderlyChainId,
                                                         target |-> "USDC_ADDRESS"],
                                    !.submitStatus = "",
                                    !.payloadStatus = "ready",
                                    !.payloadLoading = FALSE]
    /\ eipPrepare' = Idle
    /\ UNCHANGED <<eipSign, eipSubmit, paymasterClients, requests>>
    /\ EipFrame

\* an awaited call threw: catch, finally
PrepareFail ==
    /\ eipPrepare.pc \in PrepareAwaits \ {"recoverAuthorizationAddress"}
    /\ eip' = [eip EXCEPT !.payloadStatus = "error", !.payloadLoading = FALSE]
    /\ eipPrepare' = Idle
    /\ UNCHANGED <<eipSign, eipSubmit, paymasterClients, requests>>
    /\ EipFrame

\* ---- handleSubmitUserOperation

\* the click on the enabled button: the scaled operation, then the
\* pm_getPaymasterData request
SubmitUserOperationClick ==
    /\ ~eip.submitLoading
    /\ eip.preparedUnsignedOp # NullObject
    /\ eip.gasEstimates # NullObject
    /\ eip.preparedContext # NullObject
    /\ Len(requests) + 3 <= MaxEipRequests
    /\ IF eip.smartAccountRef = NullObject
       THEN /\ eip' = [eip EXCEPT !.submitStatus = "smart account missing"]
            /\ UNCHANGED <<eipSubmit, paymasterClients, requests>>
       ELSE LET opWithScaling ==
                    opWithScalingOf(eip.preparedUnsignedOp, eip.gasEstimates, eip.gasScaling)
            IN  /\ eip' = [eip EXCEPT !.submitLoading = TRUE, !.submitStatus = "submitting"]
                /\ IssuePaymasterRequest("Eip7702", "pm_getPaymasterData", opWithScaling.op)
                /\ eipSubmit' = [pc |-> "getPaymasterData", op |-> opWithScaling]
    /\ UNCHANGED <<eipSign, eipPrepare>>
    /\ EipFrame

\* the paymaster data arrived: smartAccount.signUserOperation
SubmitDataReturn ==
    /\ eipSubmit.pc = "getPaymasterData"
    /\ requests' = Append(requests,
                          OtherRequest("Eip7702", "signUserOperation",
                                       eipSubmit.op.op, eipSubmit.op))
    /\ eipSubmit' = [eipSubmit EXCEPT !.pc = "signUserOperation"]
    /\ UNCHANGED <<eip, eipSign, eipPrepare, paymasterClients>>
    /\ EipFrame

\* the signature arrived: setPreparedOp(signedOp), bundler.sendUserOperation
SubmitSignReturn ==
    /\ eipSubmit.pc = "signUserOperation"
    /\ eip' = [eip EXCEPT !.preparedOp = eipSubmit.op]
    /\ requests' = Append(requests,
                          OtherRequest("Eip7702", "eth_sendUserOperation",
                                       eipSubmit.op.op, eipSubmit.op))
    /\ eipSubmit' = [eipSubmit EXCEPT !.pc = "sendUserOperation"]
    /\ UNCHANGED <<eipSign, eipPrepare, paymasterClients>>
    /\ EipFrame

SubmitSendReturn ==
    /\ eipSubmit.pc = "sendUserOperation"
    /\ eip' = [eip EXCEPT !.submitStatus = "sent"]
    /\ eipSubmit' = [eipSubmit EXCEPT !.pc = "waitForUserOperationReceipt"]
    /\ UNCHANGED <<eipSign, eipPrepare, paymasterClients, requests>>
    /\ EipFrame

SubmitReceiptReturn ==
    /\ eipSubmit.pc = "waitForUserOperationReceipt"
    /\ eip' = [eip EXCEPT !.submitStatus = "confirmed", !.submitLoading = FALSE]
    /\ eipSubmit' = Idle
    /\ UNCHANGED <<eipSign, eipPrepare, paymasterClients, requests>>
    /\ EipFrame

\* an awaited call threw: catch, finally
SubmitFail ==
    /\ eipSubmit.pc # "idle"
    /\ eip' = [eip EXCEPT !.submitStatus = "error", !.submitLoading = FALSE]
    /\ eipSubmit' = Idle
    /\ UNCHANGED <<eipSign, eipPrepare, paymasterClients, requests>>
    /\ EipFrame

NextEip ==
    \/ EditEipField
    \/ EditEipGasScaling
    \/ SignAuthorizationClick
    \/ SignNonceReturn
    \/ SignAuthorizationReturn
    \/ SignRecoverReturn
    \/ SignFail
    \/ PrepareUserOperationClick
    \/ PrepareAccountReturn
    \/ PrepareRecoverReturn
    \/ PrepareBundlerReturn
    \/ PrepareStubReturn
    \/ PrepareDataReturn
    \/ PrepareEstimateReturn
    \/ PrepareFail
    \/ SubmitUserOperationClick
    \/ SubmitDataReturn
    \/ SubmitSignReturn
    \/ SubmitSendReturn
    \/ SubmitReceiptReturn
    \/ SubmitFail

SpecEip == InitEip /\ [][NextEip]_vars

\* C5 (Eip7702 pipeline): no pm_getPaymasterData request is issued for an
\* operation before the bundler's gas estimate for that operation; here in
\* its weakest form, that the estimate has at least been requested earlier.
C5_PaymasterDataAfterEstimate ==
    \A i \in 1..Len(requests) :
        requests[i].method = "pm_getPaymasterData"
        => \E j \in 1..(i - 1) :
              /\ requests[j].method = "eth_estimateUserOperationGas"
              /\ requests[j].op = requests[i].op

SignedInStep1(authorization) ==
    authorization = signAuthorization(SIMPLE_7702_ACCOUNT, TenderlyChainId, authorization.nonce)

\* C10: the authorization carried by the prepared operation, and by every
\* operation handed to signUserOperation and eth_sendUserOperation, equals in
\* every field the value signAuthorization returned.
C10_AuthorizationUnmodified ==
    /\ eip.preparedUnsignedOp # NullObject
       => SignedInStep1(eip.preparedUnsignedOp.authorization)
    /\ eip.preparedOp # NullObject => SignedInStep1(eip.preparedOp.authorization)
    /\ \A i \in 1..Len(requests) :
          requests[i].method \in {"signUserOperation", "eth_sendUserOperation"}
          => SignedInStep1(requests[i].payload.authorization)

-----------------------------------------------------------------------------
(* The MintSponsoredCard component.                                        *)

TargetSamples == {<<>>, Addr(97), Addr(98)}
SenderSamples == {<<>>, Addr(99), Addr(100)}

\* props: simpleAccountFactory, simpleAccountOwner, simpleAccountSalt, entryPointHint
MintPropsSamples ==
    {[simpleAccountFactory |-> Addr(102), simpleAccountOwner |-> Addr(100),
      simpleAccountSalt |-> <<48>>, entryPointHint |-> <<>>],
     [simpleAccountFactory |-> <<>>, simpleAccountOwner |-> <<>>,
      simpleAccountSalt |-> <<120>>, entryPointHint |-> Addr(101)]}

\* what api.getPaymaster(token) answers
PaymasterInfoSamples ==
    {[entryPoint |-> Addr(101), chainId |-> TenderlyChainId],
     [entryPoint |-> <<>>, chainId |-> 0]}

derivedFactory(props) ==
    IF props.simpleAccountFactory # <<>> /\ isEthAddress(props.simpleAccountFactory)
    THEN props.simpleAccountFactory ELSE Undefined
derivedOwner(props) ==
    IF props.simpleAccountOwner # <<>> /\ isEthAddress(props.simpleAccountOwner)
    THEN props.simpleAccountOwner ELSE Undefined
\* BigInt(derivedSalt || "0"), null when BigInt throws
derivedSaltBigInt(props) ==
    IF props.simpleAccountSalt = <<>> THEN 0 ELSE NumberOf(props.simpleAccountSalt)
derivedEntryPointHint(props) ==
    IF props.entryPointHint # <<>> /\ isEthAddress(props.entryPointHint)
    THEN props.entryPointHint ELSE Undefined

invalidatePrepared_KeepsEstimates(m) ==
    [m EXCEPT !.preparedAccount = NullObject,
              !.preparedUnsignedOp = NullObject,
              !.preparedContext = NullObject,
              !.gasScaling = Scaling100]

invalidatePrepared(m) ==
    [m EXCEPT !.preparedAccount = NullObject,
              !.preparedUnsignedOp = NullObject,
              !.preparedContext = NullObject,
              !.gasEstimates = NullObject,
              !.gasScaling = Scaling100]

InitMint ==
    /\ PackIdle /\ EipIdle /\ SimIdle /\ FnIdle
    /\ token \in {Null, "t1"} /\ devToken = Null
    /\ paymasterClients = <<>> /\ requests = <<>>
    /\ \E defaultTarget \in TargetSamples, defaultSender \in SenderSamples,
          props \in MintPropsSamples :
          mint = [paymasterInfo |-> NullObject,
                  paymasterLoad |-> IF token = Null THEN "idle" ELSE "pending",
                  target |-> defaultTarget, senderAddress |-> defaultSender,
                  status |-> "", gasEstimates |-> NullObject, gasScaling |-> Scaling100,
                  preparedAccount |-> NullObject, preparedUnsignedOp |-> NullObject,
                  preparedContext |-> NullObject, props |-> props]
    /\ mintPrepares = {} /\ mintSends = {}

MintFrame == UNCHANGED <<packVars, eipVars, simVars, fnVars, token, devToken, requests>>

\* status holds the first line of the status text:
\* setStatus((prev) => prev ? `${prev}\n${line}` : line)
AppendLine(status, line) == IF status # "" THEN status ELSE line

\* the effect on token: api.getPaymaster(token) answered
MintPaymasterInfoReturn ==
    /\ mint.paymasterLoad = "pending"
    /\ \E info \in PaymasterInfoSamples :
          mint' = [mint EXCEPT !.paymasterInfo = info, !.paymasterLoad = "idle"]
    /\ UNCHANGED <<mintPrepares, mintSends, paymasterClients>>
    /\ MintFrame

\* the effect on token: api.getPaymaster(token) threw
MintPaymasterInfoFail ==
    /\ mint.paymasterLoad = "pending"
    /\ mint' = [mint EXCEPT
                   !.status = AppendLine(@, "failed: unable to load paymaster info."),
                   !.paymasterLoad = "idle"]
    /\ UNCHANGED <<mintPrepares, mintSends, paymasterClients>>
    /\ MintFrame

\* the target input's onChange: setTarget, invalidatePrepared
MintEditTarget ==
    /\ \E v \in TargetSamples \ {mint.target} :
          mint' = invalidatePrepared([mint EXCEPT !.target = v])
    /\ UNCHANGED <<mintPrepares, mintSends, paymasterClients>>
    /\ MintFrame

\* setSenderAddress with a new value (the defaultSender effect, or the wallet
\* effect when the field is empty), then the effect on senderAddress
MintChangeSender ==
    /\ \E v \in SenderSamples \ {<<>>, mint.senderAddress} :
          mint' = invalidatePrepared([mint EXCEPT !.senderAddress = v])
    /\ UNCHANGED <<mintPrepares, mintSends, paymasterClients>>
    /\ MintFrame

\* a gas slider, shown while gasEstimates and preparedUnsignedOp are set
MintEditGasScaling ==
    /\ mint.gasEstimates # NullObject /\ mint.preparedUnsignedOp # NullObject
    /\ \E pct \in PercentSamples :
          \/ mint' = [mint EXCEPT !.gasScaling.call = pct]
          \/ mint' = [mint EXCEPT !.gasScaling.verification = pct]
          \/ mint' = [mint EXCEPT !.gasScaling.preVerification = pct]
    /\ mint' # mint
    /\ UNCHANGED <<mintPrepares, mintSends, paymasterClients>>
    /\ MintFrame

\* ---- prepareUserOperation

\* the identity of a new prepared operation, and of a new Send run: the
\* least number no run and no stored operation carries
Least(S) == CHOOSE n \in S : \A k \in S : n <= k
OpsInUse ==
    {r.run : r \in mintPrepares} \cup {r.op : r \in mintSends}
    \cup (IF mint.preparedUnsignedOp = NullObject THEN {} ELSE {mint.preparedUnsignedOp.op})
FreshOp == Least((1..(Cardinality(OpsInUse) + 1)) \ OpsInUse)
FreshSend ==
    Least((1..(Cardinality(mintSends) + 1)) \ {r.run : r \in mintSends})

\* the call: invalidatePrepared, the checks, then up to the first await
MintPrepareClick ==
    /\ Cardinality(mintPrepares) < MaxMintPrepares
    /\ LET m == invalidatePrepared(mint)
           info == m.paymasterInfo
           entryPoint == info.entryPoint
           chainId == info.chainId
           Refuse(text) == /\ mint' = [m EXCEPT !.status = text]
                           /\ UNCHANGED mintPrepares
       IN  IF ~isEthAddress(m.target)
           THEN Refuse("failed: target contract address is invalid.")
           ELSE IF ~isEthAddress(m.senderAddress)
           THEN Refuse("failed: Calculated smart account address is required.")
           ELSE IF \/ info = NullObject
                   \/ (info.entryPoint = <<>> /\ derivedEntryPointHint(m.props) = Undefined)
           THEN Refuse("failed: configure the paymaster before sending.")
           ELSE IF derivedFactory(m.props) = Undefined \/ derivedOwner(m.props) = Undefined
           THEN Refuse("failed: calculate the SimpleAccount first.")
           ELSE IF derivedSaltBigInt(m.props) = NaN
           THEN Refuse("failed: SimpleAccount salt is invalid.")
           ELSE IF entryPoint = <<>>
           THEN Refuse("failed: entry point address is missing.")
           ELSE IF chainId <= 0
           THEN Refuse("failed: chain id is invalid.")
           ELSE /\ mint' = [m EXCEPT !.status = "Preparing user operation"]
                /\ mintPrepares' = mintPrepares \cup
                      {[run |-> FreshOp, pc |-> "getWalletClient",
                        target |-> m.target, sender |-> m.senderAddress,
                        entryPoint |-> entryPoint, chainId |-> chainId]}
    /\ UNCHANGED <<mintSends, paymasterClients>>
    /\ MintFrame

\* a run moves on to its next await, appending a line to the status
MintPrepareStep(r, pc, line) ==
    /\ mintPrepares' = (mintPrepares \ {r}) \cup {[r EXCEPT !.pc = pc]}
    /\ mint' = [mint EXCEPT !.status = AppendLine(@, line)]

MintPrepareWalletReturn ==
    \E r \in mintPrepares :
        /\ r.pc = "getWalletClient"
        /\ mintPrepares' = (mintPrepares \ {r}) \cup {[r EXCEPT !.pc = "getSimpleSmartAccount"]}
        /\ UNCHANGED <<mint, mintSends, paymasterClients>>
        /\ MintFrame

MintPrepareAccountReturn ==
    \E r \in mintPrepares :
        /\ r.pc = "getSimpleSmartAccount"
        /\ MintPrepareStep(r, "prepareUserOperation",
                           "3. Requesting bundler prepareUserOperation")
        /\ UNCHANGED <<mintSends, paymasterClients>>
        /\ MintFrame

\* bundler.prepareUserOperation returned: getPaymasterClient(), then the
\* pm_getPaymasterStubData request
MintPrepareBundlerReturn ==
    \E r \in mintPrepares :
        /\ r.pc = "prepareUserOperation"
        /\ paymasterClients' =
              ClientsAfter(paymasterClients, TokenArgument("MintSponsoredCard", token), devToken)
        /\ MintPrepareStep(r, "getPaymasterStubData", "4. Fetching paymaster stub data")
        /\ UNCHANGED mintSends
        /\ MintFrame

\* the stub arrived: bundler.estimateUserOperationGas
MintPrepareStubReturn ==
    \E r \in mintPrepares :
        /\ r.pc = "getPaymasterStubData"
        /\ MintPrepareStep(r, "estimateUserOperationGas", "5. Estimating gas from bundler")
        /\ UNCHANGED <<mintSends, paymasterClients>>
        /\ MintFrame

\* the estimate arrived: the prepared operation is stored
MintPrepareEstimateReturn ==
    \E r \in mintPrepares, estimateResult \in EstimateSamples :
        /\ r.pc = "estimateUserOperationGas"
        /\ mint' = [mint EXCEPT
                       !.gasEstimates = estimateResult,
                       !.preparedAccount = [address |-> r.sender],
                       !.preparedUnsignedOp = [op |-> r.run, sender |-> r.sender,
                                               to |-> r.target],
                       !.preparedContext = [entryPoint |-> r.entryPoint,
                                            chainId |-> r.chainId, target |-> r.target],
                       !.status = AppendLine(@, "6. Prepared. Adjust gas sliders then click Send.")]
        /\ mintPrepares' = mintPrepares \ {r}
        /\ UNCHANGED <<mintSends, paymasterClients>>
        /\ MintFrame

\* an awaited call threw: catch
MintPrepareFail ==
    \E r \in mintPrepares :
        /\ mint' = [mint EXCEPT !.status = "failed: message"]
        /\ mintPrepares' = mintPrepares \ {r}
        /\ UNCHANGED <<mintSends, paymasterClients>>
        /\ MintFrame

\* ---- sendPreparedUserOperation

\* the call: the checks, the scaled operation (the run keeps its op id),
\* getPaymasterClient(), then the pm_getPaymasterData request
MintSendClick ==
    /\ Cardinality(mintSends) < MaxMintSends
    /\ IF \/ mint.preparedAccount = NullObject
          \/ mint.preparedUnsignedOp = NullObject
          \/ mint.gasEstimates = NullObject
          \/ mint.preparedContext = NullObject
       THEN /\ mint' = [mint EXCEPT !.status = "failed: prepare the UserOperation first."]
            /\ UNCHANGED <<mintSends, paymasterClients>>
       ELSE IF ~isEthAddress(mint.target)
       THEN /\ mint' = [mint EXCEPT !.status = "failed: target changed. Re-run Prepare."]
            /\ UNCHANGED <<mintSends, paymasterClients>>
       ELSE /\ mint' = [mint EXCEPT !.status = AppendLine(@, "Sending UserOperation")]
            /\ paymasterClients' =
                  ClientsAfter(paymasterClients, TokenArgument("MintSponsoredCard", token),
                               devToken)
            /\ mintSends' = mintSends \cup
                  {[run |-> FreshSend, pc |-> "getPaymasterData",
                    op |-> scaledOp(mint.preparedUnsignedOp, mint.gasEstimates,
                                    mint.gasScaling).op]}
    /\ UNCHANGED mintPrepares
    /\ MintFrame

\* the paymaster data arrived: bundler.sendUserOperation
MintSendDataReturn ==
    \E r \in mintSends :
        /\ r.pc = "getPaymasterData"
        /\ mintSends' = (mintSends \ {r}) \cup {[r EXCEPT !.pc = "sendUserOperation"]}
        /\ UNCHANGED <<mint, mintPrepares, paymasterClients>>
        /\ MintFrame

\* the userOpHash arrived: refreshSupply
MintSendBundlerReturn ==
    \E r \in mintSends :
        /\ r.pc = "sendUserOperation"
        /\ mintSends' = (mintSends \ {r}) \cup {[r EXCEPT !.pc = "refreshSupply"]}
        /\ mint' = [mint EXCEPT !.status = AppendLine(@, "submitted")]
        /\ UNCHANGED <<mintPrepares, paymasterClients>>
        /\ MintFrame

\* refreshSupply returned: invalidatePrepared
MintSendRefreshReturn ==
    \E r \in mintSends :
        /\ r.pc = "refreshSupply"
        /\ mintSends' = mintSends \ {r}
        /\ mint' = invalidatePrepared(mint)
        /\ UNCHANGED <<mintPrepares, paymasterClients>>
        /\ MintFrame

\* an awaited call threw: catch
MintSendFail ==
    \E r \in mintSends :
        /\ mint' = [mint EXCEPT !.status = "failed: message"]
        /\ mintSends' = mintSends \ {r}
        /\ UNCHANGED <<mintPrepares, paymasterClients>>
        /\ MintFrame

NextMint ==
    \/ MintPaymasterInfoReturn
    \/ MintPaymasterInfoFail
    \/ MintEditTarget
    \/ MintChangeSender
    \/ MintEditGasScaling
    \/ MintPrepareClick
    \/ MintPrepareWalletReturn
    \/ MintPrepareAccountReturn
    \/ MintPrepareBundlerReturn
    \/ MintPrepareStubReturn
    \/ MintPrepareEstimateReturn
    \/ MintPrepareFail
    \/ MintSendClick
    \/ MintSendDataReturn
    \/ MintSendBundlerReturn
    \/ MintSendRefreshReturn
    \/ MintSendFail

SpecMint == InitMint /\ [][NextMint]_vars

Prepared(m) ==
    /\ m.preparedUnsignedOp # NullObject
    /\ m.gasEstimates # NullObject
    /\ m.preparedContext # NullObject

\* C7: whenever preparedUnsignedOp, gasEstimates and preparedContext are
\* non-null, preparedContext.target is the current target field and the
\* prepared operation's sender is the current sender.
C7_PreparedMatchesCurrentInputs ==
    Prepared(mint)
    => /\ mint.preparedContext.target = mint.target
       /\ mint.preparedUnsignedOp.sender = mint.senderAddress

Cleared(m) ==
    /\ m.gasEstimates = NullObject
    /\ m.preparedUnsignedOp = NullObject
    /\ m.preparedContext = NullObject
    /\ m.preparedAccount = NullObject
    /\ m.gasScaling = Scaling100

RefusedPrepareFirst == "failed: prepare the UserOperation first."

C8_Step ==
    /\ (mintPrepares = {} /\ (mint'.target # mint.target
                              \/ mint'.senderAddress # mint.senderAddress))
       => Cleared(mint')
    /\ (mintPrepares = {} /\ Cleared(mint)) => Cleared(mint')
    /\ (Cleared(mint) /\ ~Cleared(mint'))
       => \E r \in mintPrepares \ mintPrepares' :
             /\ r.pc = "estimateUserOperationGas"
             /\ mint'.gasEstimates \in EstimateSamples
             /\ mint'.preparedUnsignedOp.op = r.run
    /\ (Cleared(mint) /\ MintSendClick)
       => /\ mint'.status = RefusedPrepareFirst
          /\ mintSends' = mintSends
          /\ Cleared(mint')

C9_OneSendAtATime ==
    \A r1 \in mintSends, r2 \in mintSends : r1.op = r2.op => r1 = r2

-----------------------------------------------------------------------------
(* lib/selectors: toSelector, parseSelectorEntries, splitSignatures.       *)

Comma == 44
OpenParen == 40
CloseParen == 41
LineFeed == 10

\* raw.startsWith("0x")
StartsWith0x(s) == Len(s) >= 2 /\ s[1] = 48 /\ s[2] = 120

\* the character of a hexadecimal digit, as viem's toHex writes it
HexChar(d) == IF d < 10 THEN 48 + d ELSE 87 + d

\* viem keccak256(stringToBytes(raw)): "0x" and 64 hexadecimal characters.
\* The digest itself is replaced by a 32-bit polynomial digest of the bytes,
\* written as 8 characters and repeated to the length of a Keccak-256 hash.
RECURSIVE Digest(_, _, _)
Digest(bytes, h, mult) ==
    IF bytes = <<>> THEN h
    ELSE Digest(Tail(bytes), (h * mult + Head(bytes) + 1) % 65536, mult)
DigestChars(bytes) ==
    LET hi == Digest(bytes, 7, 31)
        lo == Digest(bytes, 11, 37)
        Nibble(v, k) == (v \div (16 ^ k)) % 16
    IN  [i \in 1..8 |-> HexChar(IF i <= 4 THEN Nibble(hi, 4 - i) ELSE Nibble(lo, 8 - i))]
keccak256(bytes) == <<48, 120>> \o [i \in 1..64 |-> DigestChars(bytes)[((i - 1) % 8) + 1]]

toSelector_NoPrefix(str) ==
    LET raw == Trim(str)
    IN  IF raw = <<>> THEN Threw
        ELSE IF StartsWith0x(raw) /\ Len(raw) = 10 THEN Returned(raw)
        ELSE Returned(SubSeq(keccak256(raw), 3, 10))

toSelector(str) ==
    LET raw == Trim(str)
    IN  IF raw = <<>> THEN Threw
        ELSE IF StartsWith0x(raw) /\ Len(raw) = 10 THEN Returned(raw)
        ELSE Returned(<<48, 120>> \o SubSeq(keccak256(raw), 3, 10))

\* parts.push(trimmed) when trimmed is not empty
PushTrimmed(parts, current) ==
    IF Trim(current) # <<>> THEN Append(parts, Trim(current)) ELSE parts

\* the loop of splitSignatures from character i on, and its last two lines
RECURSIVE SplitFrom(_, _, _, _, _)
SplitFrom(csv, i, parts, current, depth) ==
    IF i > Len(csv) THEN PushTrimmed(parts, current)
    ELSE IF csv[i] = Comma /\ depth = 0
         THEN SplitFrom(csv, i + 1, PushTrimmed(parts, current), <<>>, depth)
    ELSE SplitFrom(csv, i + 1, parts, Append(current, csv[i]),
                   IF csv[i] = OpenParen THEN depth + 1
                   ELSE IF csv[i] = CloseParen /\ depth > 0 THEN depth - 1
                   ELSE depth)

RECURSIVE SplitAtEveryComma(_, _, _, _)
SplitAtEveryComma(csv, i, parts, current) ==
    IF i > Len(csv) THEN PushTrimmed(parts, current)
    ELSE IF csv[i] = Comma
         THEN SplitAtEveryComma(csv, i + 1, PushTrimmed(parts, current), <<>>)
    ELSE SplitAtEveryComma(csv, i + 1, parts, Append(current, csv[i]))

splitSignatures_IgnoresDepth(csv) == SplitAtEveryComma(csv, 1, <<>>, <<>>)

splitSignatures(csv) == SplitFrom(csv, 1, <<>>, <<>>, 0)

\* the entry of one chunk; signature is Undefined when the chunk starts with 0x
SelectorEntry(chunk) ==
    [selector |-> toSelector(chunk).hex,
     signature |-> IF StartsWith0x(chunk) THEN Undefined ELSE chunk]

parseSelectorEntries(csv) ==
    IF \E i \in 1..Len(csv) : csv[i] = LineFeed THEN [ok |-> FALSE, entries |-> <<>>]
    ELSE LET chunks == splitSignatures(csv)
         IN  IF \E k \in 1..Len(chunks) : ~toSelector(chunks[k]).ok
             THEN [ok |-> FALSE, entries |-> <<>>]
             ELSE [ok |-> TRUE,
                   entries |-> [k \in 1..Len(chunks) |-> SelectorEntry(chunks[k])]]

\* "mint(),mintTo(address,uint256)"
MintCsv == <<109, 105, 110, 116, 40, 41, 44, 109, 105, 110, 116, 84, 111, 40, 97, 100, 100, 114, 101, 115, 115, 44, 117, 105, 110, 116, 50, 53, 54, 41>>
\* "mint()"
MintSignature == <<109, 105, 110, 116, 40, 41>>
\* "mintTo(address,uint256)"
MintToSignature == <<109, 105, 110, 116, 84, 111, 40, 97, 100, 100, 114, 101, 115, 115, 44, 117, 105, 110, 116, 50, 53, 54, 41>>
\* "0xabcdef01"
HexSelector == <<48, 120, 97, 98, 99, 100, 101, 102, 48, 49>>
\* "0x12"
ShortHex == <<48, 120, 49, 50>>
\* "0xzzzzzzzz"
NotHex == <<48, 120, 122, 122, 122, 122, 122, 122, 122, 122>>
\* " 0xabcdef01 , a"
PaddedHexCsv == <<32, 48, 120, 97, 98, 99, 100, 101, 102, 48, 49, 32, 44, 32, 97>>
\* "a\na"
TwoLines == <<97, 10, 97>>
\* " \t"
Blank == <<32, 9>>

\* characters of the generated arguments: comma, parentheses, space, "a"
CsvAlphabet == {Comma, OpenParen, CloseParen, 32, 97}
GeneratedTexts == UNION {[1..n -> CsvAlphabet] : n \in 0..MaxCsvLen}
NamedTexts == {MintCsv, MintSignature, MintToSignature, HexSelector, ShortHex,
               NotHex, PaddedHexCsv, TwoLines, Blank}
TextSamples == GeneratedTexts \cup NamedTexts

InitSelectors ==
    /\ PackIdle /\ PmIdle /\ EipIdle /\ MintIdle /\ SimIdle
    /\ input \in {[text |-> t] : t \in TextSamples}
    /\ output = NullObject

SelectorsFrame == UNCHANGED <<packVars, pmVars, eipVars, mintVars, simVars, input>>

\* toSelector(input) and, when it returned, toSelector of its result
CallToSelector ==
    /\ output = NullObject
    /\ LET r == toSelector(input.text)
       IN  output' = [fn |-> "toSelector", ok |-> r.ok, value |-> r.hex,
                      again |-> IF r.ok THEN toSelector(r.hex) ELSE Threw]
    /\ SelectorsFrame

CallParseSelectorEntries ==
    /\ output = NullObject
    /\ LET r == parseSelectorEntries(input.text)
       IN  output' = [fn |-> "parseSelectorEntries", ok |-> r.ok, entries |-> r.entries]
    /\ SelectorsFrame

NextSelectors == CallToSelector \/ CallParseSelectorEntries

SpecSelectors == InitSelectors /\ [][NextSelectors]_vars

Parsed == output # NullObject /\ output.fn = "parseSelectorEntries"
Selected == output # NullObject /\ output.fn = "toSelector"
HasLineFeed(t) == \E i \in 1..Len(t) : t[i] = LineFeed

\* the comma at position i of t lies inside parentheses: some stretch of text
\* ending just before it opens more parentheses than it closes
InsideParentheses(t, i) ==
    \E j \in 1..(i - 1) :
        Cardinality({k \in j..(i - 1) : t[k] = OpenParen})
            > Cardinality({k \in j..(i - 1) : t[k] = CloseParen})
\* positions that bound the chunks of t, the two ends included
Cuts(t) == {0, Len(t) + 1}
           \cup {i \in 1..Len(t) : t[i] = Comma /\ ~InsideParentheses(t, i)}
\* the non-blank stretches between neighbouring cuts, as <<first, last>> pairs
Stretches(t) ==
    {ab \in Cuts(t) \X Cuts(t) :
        /\ ab[1] < ab[2]
        /\ ~\E c \in Cuts(t) : ab[1] < c /\ c < ab[2]
        /\ \E k \in (ab[1] + 1)..(ab[2] - 1) : ~IsSpace(t[k])}
\* the k-th non-blank stretch of t, without its surrounding white space
ChunkAt(t, k) ==
    LET ab == CHOOSE x \in Stretches(t) :
                  Cardinality({y \in Stretches(t) : y[1] < x[1]}) = k - 1
        NonSpace == {i \in (ab[1] + 1)..(ab[2] - 1) : ~IsSpace(t[i])}
        first == CHOOSE i \in NonSpace : \A o \in NonSpace : i <= o
        last == CHOOSE i \in NonSpace : \A o \in NonSpace : i >= o
    IN  SubSeq(t, first, last)

\* C15: for an input without a newline parseSelectorEntries returns one entry
\* per non-blank chunk between the commas outside parentheses, in input order;
\* the entry of a chunk that does not start with 0x has the trimmed chunk as
\* its signature, and every entry has the selector of its chunk
C15_OneEntryPerChunk ==
    (Parsed /\ ~HasLineFeed(input.text)) =>
        /\ output.ok
        /\ Len(output.entries) = Cardinality(Stretches(input.text))
        /\ \A k \in 1..Len(output.entries) :
              LET chunk == ChunkAt(input.text, k)
              IN  /\ output.entries[k].selector = toSelector(chunk).hex
                  /\ output.entries[k].signature =
                         IF StartsWith0x(chunk) THEN Undefined ELSE chunk

C15_Witness ==
    /\ Parsed
    /\ input.text = MintCsv
    /\ Len(output.entries) = 2
    /\ output.entries[1].signature = MintSignature
    /\ output.entries[2].signature = MintToSignature

\* "0x" followed by exactly 8 hexadecimal digits
IsSelectorHex(t) ==
    Len(t) = 10 /\ StartsWith0x(t) /\ \A i \in 3..10 : IsHexChar(t[i])

\* C16: a chunk beginning with 0x is accepted only when it is 0x and 8
\* hexadecimal digits, and is then the selector of an entry without signature;
\* any other chunk beginning with 0x makes parseSelectorEntries fail and
\* return no entries; a chunk not beginning with 0x gives an entry whose
\* signature is the chunk
C16_HexChunksValidated ==
    (Parsed /\ ~HasLineFeed(input.text)) =>
        LET n == Cardinality(Stretches(input.text))
            Offending(k) == /\ StartsWith0x(ChunkAt(input.text, k))
                            /\ ~IsSelectorHex(ChunkAt(input.text, k))
        IN  IF \E k \in 1..n : Offending(k)
            THEN ~output.ok /\ output.entries = <<>>
            ELSE /\ output.ok
                 /\ Len(output.entries) = n
                 /\ \A k \in 1..n :
                       LET chunk == ChunkAt(input.text, k)
                       IN  IF StartsWith0x(chunk)
                           THEN /\ output.entries[k].selector = chunk
                                /\ output.entries[k].signature = Undefined
                           ELSE output.entries[k].signature = chunk

\* C17: toSelector returns a value of the form 0x and 8 hexadecimal digits
\* unchanged, and applying it to its own result gives that result again (for
\* a non-empty input on which it throws there is no result to apply it to)
C17_ToSelectorIdempotent ==
    Selected =>
        /\ IsSelectorHex(input.text) => (output.ok /\ output.value = input.text)
        /\ output.ok = toSelector(input.text).ok
        /\ output.value = toSelector(input.text).hex
        /\ (input.text # <<>> /\ output.ok) =>
               (output.again.ok /\ output.again.hex = output.value)
        /\ ~output.ok => ~output.again.ok

C17_Witness ==
    /\ Selected
    /\ input.text = MintToSignature
    /\ output.ok
    /\ output.value # input.text
    /\ output.again.ok
    /\ output.again.hex = output.value

\* C18: toSelector throws on an empty or white-space-only input; for every
\* other input it returns 0x followed by exactly 8 hexadecimal digits, and
\* it returns its (trimmed) input itself only when that input is such a value
C18_SelectorWellFormed ==
    Selected =>
        IF Trim(input.text) = <<>>
        THEN ~output.ok
        ELSE /\ output.ok
             /\ IsSelectorHex(output.value)
             /\ output.value = Trim(input.text) => IsSelectorHex(Trim(input.text))

-----------------------------------------------------------------------------
(* The Simulator page.                                                     *)

SimulationPresets ==
    {"AA10_ALREADY_CONSTRUCTED", "AA21_PAYMASTER_PREFUND", "AA23_VALIDATION_GAS",
     "AA24_SIGNATURE_ERROR", "AA25_INVALID_NONCE", "AA32_PAYMASTER_WINDOW",
     "AA33_PAYMASTER_VALIDATION", "AA34_PAYMASTER_SIGNATURE",
     "AA90_INVALID_BENEFICIARY"}
SimulationModes == {"bad", "fix"}

DEFAULT_VERIFICATION_GAS == 500000

\* "0x4337084D9E255Ff0702461CF8895CE9E3b5Ff108"
entryPoint08Address ==
    <<48, 120, 52, 51, 51, 55, 48, 56, 52, 68, 57, 69, 50, 53, 53, 70, 102, 48, 55, 48,
      50, 52, 54, 49, 67, 70, 56, 56, 57, 53, 67, 69, 57, 69, 51, 98, 53, 70, 102, 49,
      48, 56>>
ZERO_ADDRESS == Addr(48)
\* "0xfffffffffffffffffffffffffffffff0000000000000000000000000000000007aaaaaaaaaaaaaaaaaaaaaaaaaaaaaaaaaaaaaaaaaaaaaaaaaaaaaaaaaaaaaaa1c"
DUMMY_SIGNATURE ==
    <<48, 120, 102, 102, 102, 102, 102, 102, 102, 102, 102, 102, 102, 102, 102, 102,
      102, 102, 102, 102, 102, 102, 102, 102, 102, 102, 102, 102, 102, 102, 102, 102,
      102, 48, 48, 48, 48, 48, 48, 48, 48, 48, 48, 48, 48, 48, 48, 48, 48, 48, 48, 48,
      48, 48, 48, 48, 48, 48, 48, 48, 48, 48, 48, 48, 48, 48, 55, 97, 97, 97, 97, 97,
      97, 97, 97, 97, 97, 97, 97, 97, 97, 97, 97, 97, 97, 97, 97, 97, 97, 97, 97, 97,
      97, 97, 97, 97, 97, 97, 97, 97, 97, 97, 97, 97, 97, 97, 97, 97, 97, 97, 97, 97,
      97, 97, 97, 97, 97, 97, 97, 97, 97, 97, 97, 97, 97, 97, 97, 97, 97, 97, 49, 99>>
\* "Login is required."
LoginIsRequired ==
    <<76, 111, 103, 105, 110, 32, 105, 115, 32, 114, 101, 113, 117, 105, 114, 101, 100,
      46>>
\* "Check the EntryPoint address."
CheckEntryPoint ==
    <<67, 104, 101, 99, 107, 32, 116, 104, 101, 32, 69, 110, 116, 114, 121, 80, 111,
      105, 110, 116, 32, 97, 100, 100, 114, 101, 115, 115, 46>>
\* "Check the Simple Account address."
CheckSimpleAccount ==
    <<67, 104, 101, 99, 107, 32, 116, 104, 101, 32, 83, 105, 109, 112, 108, 101, 32,
      65, 99, 99, 111, 117, 110, 116, 32, 97, 100, 100, 114, 101, 115, 115, 46>>
\* "Check the factory address."
CheckFactory ==
    <<67, 104, 101, 99, 107, 32, 116, 104, 101, 32, 102, 97, 99, 116, 111, 114, 121,
      32, 97, 100, 100, 114, 101, 115, 115, 46>>
\* "Check the target contract address."
CheckTarget ==
    <<67, 104, 101, 99, 107, 32, 116, 104, 101, 32, 116, 97, 114, 103, 101, 116, 32,
      99, 111, 110, 116, 114, 97, 99, 116, 32, 97, 100, 100, 114, 101, 115, 115, 46>>
\* "Check the recipient address."
CheckRecipient ==
    <<67, 104, 101, 99, 107, 32, 116, 104, 101, 32, 114, 101, 99, 105, 112, 105, 101,
      110, 116, 32, 97, 100, 100, 114, 101, 115, 115, 46>>
\* "Salt must be an integer."
SaltMustBeAnInteger ==
    <<83, 97, 108, 116, 32, 109, 117, 115, 116, 32, 98, 101, 32, 97, 110, 32, 105, 110,
      116, 101, 103, 101, 114, 46>>
\* "Simulating with invalid input\u2026"
SimulatingInvalid ==
    <<83, 105, 109, 117, 108, 97, 116, 105, 110, 103, 32, 119, 105, 116, 104, 32, 105,
      110, 118, 97, 108, 105, 100, 32, 105, 110, 112, 117, 116, 8230>>
\* "Simulating with corrected input\u2026"
SimulatingCorrected ==
    <<83, 105, 109, 117, 108, 97, 116, 105, 110, 103, 32, 119, 105, 116, 104, 32, 99,
      111, 114, 114, 101, 99, 116, 101, 100, 32, 105, 110, 112, 117, 116, 8230>>
\* "Simulation succeeded."
SimulationSucceeded ==
    <<83, 105, 109, 117, 108, 97, 116, 105, 111, 110, 32, 115, 117, 99, 99, 101, 101,
      100, 101, 100, 46>>
\* "Detected code: "
DetectedCode ==
    <<68, 101, 116, 101, 99, 116, 101, 100, 32, 99, 111, 100, 101, 58, 32>>
\* "Simulation response requires review."
RequiresReview ==
    <<83, 105, 109, 117, 108, 97, 116, 105, 111, 110, 32, 114, 101, 115, 112, 111, 110,
      115, 101, 32, 114, 101, 113, 117, 105, 114, 101, 115, 32, 114, 101, 118, 105,
      101, 119, 46>>
\* "execution reverted: "
ExecutionRevertedColon ==
    <<101, 120, 101, 99, 117, 116, 105, 111, 110, 32, 114, 101, 118, 101, 114, 116,
      101, 100, 58, 32>>
\* "Simulation failed. Please inspect the trace."
InspectTheTrace ==
    <<83, 105, 109, 117, 108, 97, 116, 105, 111, 110, 32, 102, 97, 105, 108, 101, 100,
      46, 32, 80, 108, 101, 97, 115, 101, 32, 105, 110, 115, 112, 101, 99, 116, 32,
      116, 104, 101, 32, 116, 114, 97, 99, 101, 46>>
\* "request failed"
ThrownMessage ==
    <<114, 101, 113, 117, 101, 115, 116, 32, 102, 97, 105, 108, 101, 100>>
\* "AA23 reverted"
AA23Reverted ==
    <<65, 65, 50, 51, 32, 114, 101, 118, 101, 114, 116, 101, 100>>
\* "execution reverted"
ExecutionReverted ==
    <<101, 120, 101, 99, 117, 116, 105, 111, 110, 32, 114, 101, 118, 101, 114, 116,
      101, 100>>
\* "AA25 invalid account nonce"
AA25InvalidNonce ==
    <<65, 65, 50, 53, 32, 105, 110, 118, 97, 108, 105, 100, 32, 97, 99, 99, 111, 117,
      110, 116, 32, 110, 111, 110, 99, 101>>
\* "invalid params"
InvalidParams ==
    <<105, 110, 118, 97, 108, 105, 100, 32, 112, 97, 114, 97, 109, 115>>
\* "AA21 didn't pay prefund"
AA21Prefund ==
    <<65, 65, 50, 49, 32, 100, 105, 100, 110, 39, 116, 32, 112, 97, 121, 32, 112, 114,
      101, 102, 117, 110, 100>>

\* a ?? b for texts
Coalesce(a, b) == IF a # Undefined THEN a ELSE b

\* /(AA\d{2})/.exec(message): the first match, or undefined
MatchAACode(message) ==
    LET Starts == {i \in 1..(Len(message) - 3) :
                      /\ message[i] = 65 /\ message[i + 1] = 65
                      /\ IsDigitChar(message[i + 2]) /\ IsDigitChar(message[i + 3])}
    IN  IF Starts = {} THEN Undefined
        ELSE LET first == CHOOSE i \in Starts : \A o \in Starts : i <= o
             IN  SubSeq(message, first, first + 3)

\* response?.error?.message ?? response?.result?.error?.message ?? ""
TopLevelMessage(response) ==
    Coalesce(response.error,
             Coalesce(IF response.result = NullObject THEN Undefined
                      ELSE response.result.error, <<>>))

extractErrorCode(response) == MatchAACode(TopLevelMessage(response))

\* value.replace(/\u0000/g, "").trim()
trimNullChars(value) == Trim(SelectSeq(value, LAMBDA c : c # 0))

\* [error, reason].map((part) => part?.trim()).filter(Boolean).join(": ")
JoinNonEmpty(a, b) ==
    IF Trim(a) = <<>> THEN Trim(b)
    ELSE IF Trim(b) = <<>> THEN Trim(a)
    ELSE Trim(a) \o <<58, 32>> \o Trim(b)

\* result.status of a response: "true", "false", "1" (a value that is neither
\* boolean) or "undefined"
StatusOf(response) ==
    IF response.result = NullObject THEN "undefined" ELSE response.result.status

extractReadableError(response) ==
    IF StatusOf(response) = "false"
    THEN LET trace == response.result.trace
             combined ==
                 IF trace = <<>> THEN <<>>
                 ELSE JoinNonEmpty(
                          Coalesce(trace[1].error, <<>>),
                          trimNullChars(
                              Coalesce(trace[1].errorReason,
                                  Coalesce(trace[1].revertReason,
                                      Coalesce(response.result.error, <<>>)))))
             fallbackError ==
                 IF trace = <<>> \/ Coalesce(trace[Len(trace)].error, <<>>) = <<>>
                 THEN <<>>
                 ELSE trimNullChars(trace[Len(trace)].error)
         IN  IF combined # <<>> THEN combined
             ELSE IF fallbackError # <<>> THEN ExecutionRevertedColon \o fallbackError
             ELSE InspectTheTrace
    ELSE IF trimNullChars(TopLevelMessage(response)) # <<>>
         THEN trimNullChars(TopLevelMessage(response))
         ELSE Undefined

\* the entry of results[preset][mode] written after response.json()
SimulationResult_SuccessUnlessFalse(response, note) ==
    LET code == extractErrorCode(response)
        simulationSucceeded == StatusOf(response) # "false"
    IN  [status |-> IF simulationSucceeded THEN "success" ELSE "error",
         code |-> code,
         message |-> IF simulationSucceeded THEN SimulationSucceeded
                     ELSE RequiresReview,
         raw |-> response, note |-> note]

SimulationResult(response, note) ==
    LET code == extractErrorCode(response)
        readableError == extractReadableError(response)
        simulationSucceeded == StatusOf(response) = "true"
        errorMessage ==
            IF readableError # Undefined THEN readableError
            ELSE IF code # Undefined THEN DetectedCode \o code
            ELSE RequiresReview
    IN  [status |-> IF simulationSucceeded THEN "success" ELSE "error",
         code |-> IF simulationSucceeded THEN Undefined ELSE code,
         message |-> IF simulationSucceeded THEN SimulationSucceeded ELSE errorMessage,
         raw |-> response, note |-> note]

\* a result without code, raw and note: idle, loading, or a refused or failed run
PlainResult(status, message, note) ==
    [status |-> status, code |-> Undefined, message |-> message,
     raw |-> NullObject, note |-> note]

\* one frame of result.trace
Frame(error, errorReason, revertReason) ==
    [error |-> error, errorReason |-> errorReason, revertReason |-> revertReason]

\* what the simulation endpoint answers
ResponseSamples ==
    {[error |-> Undefined,
      result |-> [status |-> "true", error |-> Undefined, trace |-> <<>>]],
     [error |-> AA21Prefund,
      result |-> [status |-> "true", error |-> Undefined, trace |-> <<>>]],
     [error |-> Undefined,
      result |-> [status |-> "false", error |-> Undefined,
                  trace |-> <<Frame(ExecutionReverted, AA23Reverted, Undefined)>>]],
     [error |-> Undefined,
      result |-> [status |-> "false", error |-> AA25InvalidNonce, trace |-> <<>>]],
     [error |-> Undefined,
      result |-> [status |-> "1", error |-> Undefined, trace |-> <<>>]],
     [error |-> Undefined,
      result |-> [status |-> "undefined", error |-> Undefined, trace |-> <<>>]],
     [error |-> InvalidParams, result |-> NullObject],
     [error |-> AA21Prefund, result |-> NullObject]}

\* an absent bigint field of an operation
UndefinedBigInt == -1

\* the signature an account or wallet produces over an operation for the
\* EIP-712 domain of entry point ep; only the entry point it is bound to is kept
Signed(ep) == <<-2>> \o toLowerCase(ep)
\* the entry point a signature is bound to, undefined for bytes that are not
\* such a signature
BoundEntryPoint(signature) ==
    IF signature # <<>> /\ Head(signature) = -2 THEN Tail(signature) ELSE Undefined

\* the stub signature prepareUserOperation fills in
StubSignature == <<-3>>

\* buildFactoryData(owner, salt): the createAccount call data, kept as its arguments
buildFactoryData(owner, salt) == <<48, 120, -4, salt>> \o owner

\* BigInt(text) for the texts of the salt field: decimal digits, else it throws
BigIntOf(text) ==
    IF \A i \in 1..Len(Trim(text)) : IsDigitChar(Trim(text)[i])
    THEN [ok |-> TRUE, value |-> DecimalValue(Trim(text))]
    ELSE [ok |-> FALSE, value |-> 0]

\* the notes, by the place that writes them: buildFixNote, a bad branch of
\* mutateForPreset, or the badInput text of the card
FixNote(preset) == <<"Right input", preset>>
BadNote(preset) == <<"Wrong input", preset>>
BadInputNote(preset) == <<"badInput", preset>>
NoNote == <<>>

\* AA34 bad: the tail of paymasterData replaced by the dummy signature
WithDummyTail(paymasterData) ==
    IF paymasterData # Undefined /\ paymasterData # <<>> /\ paymasterData # <<48, 120>>
    THEN LET dummy == SubSeq(DUMMY_SIGNATURE, 3, Len(DUMMY_SIGNATURE))
             current == SubSeq(paymasterData, 3, Len(paymasterData))
             prefixLength == Max(0, Len(current) - Len(dummy))
         IN  <<48, 120>> \o SubSeq(current, 1, prefixLength) \o dummy
    ELSE DUMMY_SIGNATURE

\* mutateForPreset; typedDataSigned tells whether walletClient.signTypedData
\* of the AA24 branch returned or threw
mutateForPreset(preset, mode, operation, factory, owner, salt, typedDataSigned) ==
    LET op == [operation EXCEPT !.signature = Undefined]
    IN  IF mode = "fix"
        THEN [operation |-> op, note |-> FixNote(preset), beneficiary |-> Undefined]
        ELSE [operation |->
                CASE preset = "AA23_VALIDATION_GAS" ->
                         [op EXCEPT !.verificationGasLimit = 1]
                  [] preset = "AA24_SIGNATURE_ERROR" ->
                         [op EXCEPT !.signature =
                             IF typedDataSigned THEN Signed(ZERO_ADDRESS)
                             ELSE DUMMY_SIGNATURE]
                  [] preset = "AA33_PAYMASTER_VALIDATION" ->
                         [op EXCEPT !.paymasterVerificationGasLimit = 1]
                  [] preset = "AA34_PAYMASTER_SIGNATURE" ->
                         [op EXCEPT !.paymasterData = WithDummyTail(@)]
                  [] preset = "AA10_ALREADY_CONSTRUCTED" ->
                         [op EXCEPT !.factory = factory,
                                    !.factoryData = buildFactoryData(owner, salt),
                                    !.initCode =
                                        factory \o SubSeq(buildFactoryData(owner, salt), 3,
                                                          Len(buildFactoryData(owner, salt)))]
                  [] preset = "AA25_INVALID_NONCE" ->
                         [op EXCEPT !.nonce =
                             IF @ = UndefinedBigInt THEN @
                             ELSE IF @ = 0 THEN 0 ELSE @ - 1]
                  [] OTHER -> op,
              note |-> IF preset = "AA21_PAYMASTER_PREFUND" THEN NoNote
                       ELSE BadNote(preset),
              beneficiary |-> IF preset = "AA90_INVALID_BENEFICIARY" THEN ZERO_ADDRESS
                              ELSE Undefined]

\* bounds of the page's specification: handleSimulate calls started, and the
\* nonces the bundler prepares
MaxSimulations == 2
MaxPreparedNonce == 1

Cells == SimulationPresets \X SimulationModes

\* what storedState holds when the page mounts
EntryPointSamples == {<<>>, entryPoint08Address, Addr(101)}
SimFormSamples ==
    [entryPoint : EntryPointSamples, factory : {<<>>, Addr(102)},
     owner : {Addr(100)}, sender : {<<>>, Addr(99)}, salt : {<<48>>, <<120>>},
     target : {<<>>, Addr(97)}, recipient : {<<>>, Addr(100)}]

\* the address walletClient.getAddresses() lists first
WalletAddress == Addr(100)

\* what pm_getPaymasterData answers (it replaces all four fields of the stub)
PaymasterDataSample ==
    [paymaster |-> Addr(112),
     paymasterData |-> <<48, 120, 97, 98>> \o [i \in 1..130 |-> 49],
     paymasterVerificationGasLimit |-> 100000, paymasterPostOpGasLimit |-> 50000]

InitSim ==
    /\ PackIdle /\ EipIdle /\ MintIdle /\ FnIdle
    /\ token \in {Null, "t1"} /\ devToken = Null
    /\ paymasterClients = <<>> /\ requests = <<>>
    /\ \E form \in SimFormSamples :
          sim = [form |-> form,
                 results |-> [c \in Cells |-> PlainResult("idle", <<>>, NoNote)],
                 started |-> 0]
    /\ simRuns = [c \in Cells |-> NullObject]

SimFrame == UNCHANGED <<packVars, eipVars, mintVars, fnVars, token, devToken, requests>>

SetResult_FreshPreset(s, cell, result) ==
    [s EXCEPT !.results =
        [c \in Cells |-> IF c = cell THEN result
                         ELSE IF c[1] = cell[1] THEN PlainResult("idle", <<>>, NoNote)
                         ELSE @[c]]]

\* setResults((prev) => ({ ...prev, [preset]: { ...current, [mode]: result } }))
SetResult(s, cell, result) == [s EXCEPT !.results[cell] = result]

\* updateForm("entryPoint", value)
SimEditEntryPoint ==
    /\ \E value \in EntryPointSamples :
          /\ value # sim.form.entryPoint
          /\ sim' = [sim EXCEPT !.form.entryPoint = value]
    /\ UNCHANGED <<simRuns, paymasterClients>>
    /\ SimFrame

RefusalOf_SkipsRecipient(form, tok) ==
    IF tok = Null THEN LoginIsRequired
    ELSE IF ~isEthAddress(form.entryPoint) THEN CheckEntryPoint
    ELSE IF ~isEthAddress(form.sender) THEN CheckSimpleAccount
    ELSE IF ~isEthAddress(form.factory) THEN CheckFactory
    ELSE IF ~isEthAddress(form.target) THEN CheckTarget
    ELSE IF ~BigIntOf(IF form.salt = <<>> THEN <<48>> ELSE form.salt).ok
         THEN SaltMustBeAnInteger
    ELSE Undefined

\* the message of the first check of handleSimulate that fails, if any
RefusalOf(form, tok) ==
    IF tok = Null THEN LoginIsRequired
    ELSE IF ~isEthAddress(form.entryPoint) THEN CheckEntryPoint
    ELSE IF ~isEthAddress(form.sender) THEN CheckSimpleAccount
    ELSE IF ~isEthAddress(form.factory) THEN CheckFactory
    ELSE IF ~isEthAddress(form.target) THEN CheckTarget
    ELSE IF ~isEthAddress(form.recipient) THEN CheckRecipient
    ELSE IF ~BigIntOf(IF form.salt = <<>> THEN <<48>> ELSE form.salt).ok
         THEN SaltMustBeAnInteger
    ELSE Undefined

\* the click on "Simulate wrong input" or "Simulate right input" of a card
\* (disabled while that result is loading): the checks, "loading", then
\* getWalletClient and getSimpleSmartAccount
SimulateClick ==
    /\ sim.started < MaxSimulations
    /\ \E cell \in Cells :
          /\ sim.results[cell].status # "loading"
          /\ IF RefusalOf(sim.form, token) # Undefined
             THEN /\ sim' = [SetResult(sim, cell,
                                 PlainResult("error", RefusalOf(sim.form, token), NoNote))
                               EXCEPT !.started = @ + 1]
                  /\ UNCHANGED simRuns
             ELSE /\ sim' = [SetResult(sim, cell,
                                 PlainResult("loading",
                                     IF cell[2] = "bad" THEN SimulatingInvalid
                                     ELSE SimulatingCorrected, NoNote))
                               EXCEPT !.started = @ + 1]
                  /\ simRuns' = [simRuns EXCEPT ![cell] =
                        [pc |-> "getSimpleSmartAccount", form |-> sim.form,
                         saltBigInt |-> BigIntOf(IF sim.form.salt = <<>> THEN <<48>>
                                                 ELSE sim.form.salt).value,
                         token |-> token]]
    /\ UNCHANGED paymasterClients
    /\ SimFrame

\* getSimpleSmartAccount (and getChainId) returned: the account of
\* entryPoint08Address; bundler.prepareUserOperation
SimAccountReturn ==
    /\ \E cell \in Cells :
          /\ simRuns[cell] # NullObject
          /\ simRuns[cell].pc = "getSimpleSmartAccount"
          /\ simRuns' = [simRuns EXCEPT ![cell] =
                [pc |-> "prepareUserOperation", form |-> @.form,
                 saltBigInt |-> @.saltBigInt, token |-> @.token,
                 simpleAccount |-> [address |-> @.form.sender,
                                    entryPoint |-> entryPoint08Address]]]
    /\ UNCHANGED <<sim, paymasterClients>>
    /\ SimFrame

\* the operation after mutateForPreset, as the run keeps it until it signs
Mutated(run, cell, baseOp, typedDataSigned) ==
    LET m == mutateForPreset(cell[1], cell[2], baseOp, run.form.factory,
                             run.form.owner, run.saltBigInt, typedDataSigned)
    IN  [pc |-> "signUserOperation", form |-> run.form, saltBigInt |-> run.saltBigInt,
         token |-> run.token, simpleAccount |-> run.simpleAccount,
         prepared |-> run.prepared,
         mutated |-> m.operation,
         scenarioNote |-> IF m.note # NoNote THEN m.note
                          ELSE IF cell[2] = "bad" THEN BadInputNote(cell[1])
                          ELSE <<"fixTip", cell[1]>>,
         overrideBeneficiary |-> m.beneficiary]

\* the prepared operation arrived: getPaymasterClient(token); with the
\* decorator (AA21 bad) mutateForPreset follows, else getPaymasterStubData
SimPrepareReturn ==
    /\ \E cell \in Cells, nonce \in 0..MaxPreparedNonce :
          /\ simRuns[cell] # NullObject
          /\ simRuns[cell].pc = "prepareUserOperation"
          /\ LET run == simRuns[cell]
                 prepared ==
                     [sender |-> run.form.sender, nonce |-> nonce,
                      verificationGasLimit |-> DEFAULT_VERIFICATION_GAS,
                      paymaster |-> Undefined, paymasterData |-> Undefined,
                      paymasterVerificationGasLimit |-> UndefinedBigInt,
                      paymasterPostOpGasLimit |-> UndefinedBigInt,
                      factory |-> Undefined, factoryData |-> Undefined,
                      initCode |-> Undefined, signature |-> StubSignature]
                 withPrepared ==
                     [pc |-> "getPaymasterData", form |-> run.form,
                      saltBigInt |-> run.saltBigInt, token |-> run.token,
                      simpleAccount |-> run.simpleAccount, prepared |-> prepared]
             IN  /\ paymasterClients' =
                        ClientsAfter(paymasterClients,
                                     TokenArgument("Simulator", run.token), devToken)
                 /\ IF cell = <<"AA21_PAYMASTER_PREFUND", "bad">>
                    THEN simRuns' = [simRuns EXCEPT ![cell] =
                                        Mutated(withPrepared, cell, prepared, TRUE)]
                    ELSE simRuns' = [simRuns EXCEPT ![cell] = withPrepared]
    /\ UNCHANGED sim
    /\ SimFrame

\* the stub and the final paymaster data arrived: baseOp, mutateForPreset
SimPaymasterReturn ==
    /\ \E cell \in Cells, typedDataSigned \in BOOLEAN :
          /\ simRuns[cell] # NullObject
          /\ simRuns[cell].pc = "getPaymasterData"
          /\ typedDataSigned \/ cell = <<"AA24_SIGNATURE_ERROR", "bad">>
          /\ LET run == simRuns[cell]
                 baseOp ==
                     [run.prepared EXCEPT
                         !.paymaster = PaymasterDataSample.paymaster,
                         !.paymasterData = PaymasterDataSample.paymasterData,
                         !.paymasterVerificationGasLimit =
                             PaymasterDataSample.paymasterVerificationGasLimit,
                         !.paymasterPostOpGasLimit =
                             PaymasterDataSample.paymasterPostOpGasLimit]
             IN  simRuns' = [simRuns EXCEPT ![cell] =
                                Mutated(run, cell, baseOp, typedDataSigned)]
    /\ UNCHANGED <<sim, paymasterClients>>
    /\ SimFrame

\* the signature is there (mutated.signature, or simpleAccount.signUserOperation
\* returned) and so is the beneficiary: the simulation request is sent
SimSignReturn ==
    /\ \E cell \in Cells :
          /\ simRuns[cell] # NullObject
          /\ simRuns[cell].pc = "signUserOperation"
          /\ LET run == simRuns[cell]
                 signature ==
                     IF run.mutated.signature # Undefined THEN run.mutated.signature
                     ELSE Signed(run.simpleAccount.entryPoint)
                 beneficiary ==
                     IF run.overrideBeneficiary # Undefined THEN run.overrideBeneficiary
                     ELSE WalletAddress
             IN  simRuns' = [simRuns EXCEPT ![cell] =
                    [pc |-> "fetch", prepared |-> run.prepared,
                     scenarioNote |-> run.scenarioNote,
                     packed |-> [run.mutated EXCEPT !.signature = signature],
                     params |-> [from |-> beneficiary, to |-> run.form.entryPoint,
                                 time |-> cell = <<"AA32_PAYMASTER_WINDOW", "bad">>]]]
    /\ UNCHANGED <<sim, paymasterClients>>
    /\ SimFrame

\* response.json() arrived: the result is recorded
SimResponse ==
    /\ \E cell \in Cells, json \in ResponseSamples :
          /\ simRuns[cell] # NullObject
          /\ simRuns[cell].pc = "fetch"
          /\ sim' = SetResult(sim, cell, SimulationResult(json, simRuns[cell].scenarioNote))
          /\ simRuns' = [simRuns EXCEPT ![cell] = NullObject]
    /\ UNCHANGED paymasterClients
    /\ SimFrame

SimFail_LeavesLoading ==
    /\ \E cell \in Cells :
          /\ simRuns[cell] # NullObject
          /\ simRuns' = [simRuns EXCEPT ![cell] = NullObject]
    /\ UNCHANGED <<sim, paymasterClients>>
    /\ SimFrame

\* an awaited call threw: catch
SimFail ==
    /\ \E cell \in Cells :
          /\ simRuns[cell] # NullObject
          /\ sim' = SetResult(sim, cell,
                        PlainResult("error", ThrownMessage,
                            IF "scenarioNote" \in DOMAIN simRuns[cell]
                            THEN simRuns[cell].scenarioNote ELSE NoNote))
          /\ simRuns' = [simRuns EXCEPT ![cell] = NullObject]
    /\ UNCHANGED paymasterClients
    /\ SimFrame

NextSim ==
    \/ SimEditEntryPoint
    \/ SimulateClick
    \/ SimAccountReturn
    \/ SimPrepareReturn
    \/ SimPaymasterReturn
    \/ SimSignReturn
    \/ SimResponse
    \/ SimFail

SpecSim == InitSim /\ [][NextSim]_vars

\* the runs whose simulation request has been sent
Simulated == {cell \in Cells : simRuns[cell] # NullObject /\ simRuns[cell].pc = "fetch"}

\* C11: in every run but AA24 bad, the entry point the operation's signature
\* is bound to is the address the simulated handleOps call is sent to
C11_SignedForSimulatedEntryPoint ==
    \A cell \in Simulated \ {<<"AA24_SIGNATURE_ERROR", "bad">>} :
        BoundEntryPoint(simRuns[cell].packed.signature)
            = toLowerCase(Trim(simRuns[cell].params.to))

\* the results a response was recorded in
Recorded == {cell \in Cells : sim.results[cell].raw # NullObject}

\* C12: a result is 'success' exactly when it records a response whose
\* result.status is true, it then has no code, and every other recorded
\* response has status 'error'
C12_SuccessIffStatusTrue ==
    \A cell \in Cells :
        LET r == sim.results[cell]
        IN  /\ r.status = "success" <=> (cell \in Recorded /\ StatusOf(r.raw) = "true")
            /\ r.status = "success" => r.code = Undefined
            /\ (cell \in Recorded /\ StatusOf(r.raw) # "true") => r.status = "error"

\* a success recorded for a response that also carries an error message with
\* an AA code, next to an error recorded for a status that is not a boolean
C12_Witness ==
    \E c1 \in Recorded, c2 \in Recorded :
        /\ sim.results[c1].status = "success"
        /\ sim.results[c1].raw.error = AA21Prefund
        /\ sim.results[c1].code = Undefined
        /\ sim.results[c2].status = "error"
        /\ StatusOf(sim.results[c2].raw) = "1"

\* the AA codes in the revert messages of the trace frames of a response
TraceCodes(response) ==
    IF response.result = NullObject THEN {}
    ELSE {MatchAACode(Coalesce(text, <<>>)) :
             text \in UNION {{response.result.trace[i].errorReason,
                              response.result.trace[i].revertReason,
                              response.result.trace[i].error} :
                                 i \in 1..Len(response.result.trace)}}
         \ {Undefined}

\* C13: a recorded response that is not a success and has an AA code in a
\* revert message of its trace is recorded with that code
C13_CodeFromTrace ==
    \A cell \in Recorded :
        sim.results[cell].status # "success" =>
            \A code \in TraceCodes(sim.results[cell].raw) :
                sim.results[cell].code = code

\* the AA25 runs that hold the prepared and the mutated operation
Mutating(mode) ==
    {cell \in Cells :
        /\ cell = <<"AA25_INVALID_NONCE", mode>>
        /\ simRuns[cell] # NullObject
        /\ simRuns[cell].pc = "signUserOperation"}

\* C14: for a prepared nonce n the AA25 bad run signs an operation with a
\* nonce below n, and the AA25 fix run one with nonce n
C14_BadNonceIsStale ==
    /\ \A cell \in Mutating("bad") :
          simRuns[cell].mutated.nonce < simRuns[cell].prepared.nonce
    /\ \A cell \in Mutating("fix") :
          simRuns[cell].mutated.nonce = simRuns[cell].prepared.nonce

\* the token is missing, one of the five address fields does not hold an
\* address, or the salt is not an integer
InvalidInputs(form, tok) ==
    \/ tok = Null
    \/ \E field \in {"entryPoint", "sender", "factory", "target", "recipient"} :
          ~isEthAddress(form[field])
    \/ (form.salt # <<>> /\ ~BigIntOf(form.salt).ok)

\* a call of handleSimulate with invalid inputs writes 'error' and a message
\* into its result and nothing else: no run is started, no client is made
C21_Step ==
    (sim'.started # sim.started /\ InvalidInputs(sim.form, token)) =>
        /\ simRuns' = simRuns
        /\ paymasterClients' = paymasterClients
        /\ requests' = requests
        /\ \E cell \in Cells :
              /\ sim'.results[cell].status = "error"
              /\ sim'.results[cell].message # <<>>
              /\ sim'.results[cell].raw = NullObject
              /\ \A other \in Cells \ {cell} :
                    sim'.results[other] = sim.results[other]

\* C21: with a missing token, a malformed entry point, sender, factory,
\* target or recipient, or a salt that is not an integer, handleSimulate
\* records 'error' with a message and returns: the status is never 'loading'
\* and no wallet, bundler, paymaster or simulation request is made.
C21_InvalidInputsRefused == [][C21_Step]_vars

\* a click refused for the recipient field alone, with no run in flight
C21_Witness ==
    /\ sim # NullObject
    /\ token # Null
    /\ isEthAddress(sim.form.entryPoint) /\ isEthAddress(sim.form.target)
    /\ ~isEthAddress(sim.form.recipient)
    /\ sim.started = 1
    /\ \E cell \in Cells :
          /\ sim.results[cell].status = "error"
          /\ sim.results[cell].message = CheckRecipient
    /\ \A cell \in Cells : simRuns[cell] = NullObject

-----------------------------------------------------------------------------
(* mutateForPreset as a call on objects: the heap maps object references   *)
(* to their fields.                                                        *)

\* the reference of the operation object the caller passes
OperationRef == 1
\* the reference of the object "const op = { ...operation }" creates
CopyRef(heap) == Max(0, CHOOSE r \in DOMAIN heap : \A o \in DOMAIN heap : o <= r) + 1

mutateForPresetCall_InPlace(heap, operation, preset, mode, factory, owner, salt, signed) ==
    LET m == mutateForPreset(preset, mode, heap[operation], factory, owner, salt, signed)
    IN  [heap |-> [heap EXCEPT ![operation] = m.operation],
         operation |-> operation, note |-> m.note, beneficiary |-> m.beneficiary]

\* the call mutateForPreset({ operation, ... }): op is a new object holding
\* the fields of operation; every later write goes to op, which is returned
mutateForPresetCall(heap, operation, preset, mode, factory, owner, salt, signed) ==
    LET op == CopyRef(heap)
        m == mutateForPreset(preset, mode, heap[operation], factory, owner, salt, signed)
    IN  [heap |-> (op :> m.operation) @@ heap,
         operation |-> op, note |-> m.note, beneficiary |-> m.beneficiary]

\* operations as handleSimulate builds them, with and without a signature
OperationSamples ==
    [sender : {Addr(99)}, nonce : {0, 1},
     verificationGasLimit : {1, DEFAULT_VERIFICATION_GAS},
     paymaster : {Addr(112)},
     paymasterData : {Undefined, PaymasterDataSample.paymasterData},
     paymasterVerificationGasLimit : {UndefinedBigInt, 1, 100000},
     paymasterPostOpGasLimit : {50000},
     factory : {Undefined}, factoryData : {Undefined}, initCode : {Undefined},
     signature : {Undefined, StubSignature}]

InitMutate ==
    /\ PackIdle /\ PmIdle /\ EipIdle /\ MintIdle /\ SimIdle
    /\ \E cell \in Cells, operation \in OperationSamples :
          input = [preset |-> cell[1], mode |-> cell[2],
                   heap |-> (OperationRef :> operation),
                   factory |-> Addr(102), owner |-> Addr(100), salt |-> 0]
    /\ output = NullObject

\* mutateForPreset(params) returned; in the AA24 bad branch
\* walletClient.signTypedData returned or threw
CallMutateForPreset ==
    /\ output = NullObject
    /\ \E signed \in BOOLEAN :
          /\ signed \/ (input.preset = "AA24_SIGNATURE_ERROR" /\ input.mode = "bad")
          /\ output' = mutateForPresetCall(input.heap, OperationRef, input.preset,
                                           input.mode, input.factory, input.owner,
                                           input.salt, signed)
    /\ ScaleFrame

NextMutate == CallMutateForPreset

SpecMutate == InitMutate /\ [][NextMutate]_vars

\* the operation given, without its signature
WithoutSignature(operation) == [operation EXCEPT !.signature = Undefined]

\* C25: mutateForPreset leaves the operation object it is given as it was;
\* in fix mode it returns that operation without signature and no
\* beneficiary; in bad mode the returned operation is the fix-mode one with
\* verificationGasLimit 1 for AA23, with paymasterVerificationGasLimit 1 for
\* AA33, and unchanged for AA32 and AA90, AA90 also returning the zero
\* address as beneficiary.
C25_OnlyTargetedInputCorrupted ==
    output # NullObject =>
        LET given == input.heap[OperationRef]
            returned == output.heap[output.operation]
            fixed == WithoutSignature(given)
        IN  /\ output.heap[OperationRef] = given
            /\ input.mode = "fix" =>
                   (returned = fixed /\ output.beneficiary = Undefined)
            /\ (input.mode = "bad" /\ input.preset = "AA23_VALIDATION_GAS") =>
                   returned = [fixed EXCEPT !.verificationGasLimit = 1]
            /\ (input.mode = "bad" /\ input.preset = "AA33_PAYMASTER_VALIDATION") =>
                   returned = [fixed EXCEPT !.paymasterVerificationGasLimit = 1]
            /\ (input.mode = "bad" /\ input.preset = "AA32_PAYMASTER_WINDOW") =>
                   returned = fixed
            /\ (input.mode = "bad" /\ input.preset = "AA90_INVALID_BENEFICIARY") =>
                   (returned = fixed /\ output.beneficiary = ZERO_ADDRESS)

\* AA23 bad on a signed operation with the default verification gas limit
C25_Witness ==
    /\ output # NullObject
    /\ input.preset = "AA23_VALIDATION_GAS" /\ input.mode = "bad"
    /\ input.heap[OperationRef].signature = StubSignature
    /\ input.heap[OperationRef].verificationGasLimit = DEFAULT_VERIFICATION_GAS
    /\ output.operation # OperationRef
    /\ output.heap[OperationRef].signature = StubSignature
    /\ output.heap[output.operation].signature = Undefined
    /\ output.heap[output.operation].verificationGasLimit = 1

\* the results a step changes
ChangedResults == {cell \in Cells : sim'.results[cell] # sim.results[cell]}
\* the step is a call of handleSimulate for the cell, or the end of its run
StartsOrEnds(cell) ==
    \/ /\ sim'.started # sim.started
       /\ sim.results[cell].status # "loading"
    \/ /\ simRuns[cell] # NullObject
       /\ simRuns'[cell] = NullObject
       /\ sim'.results[cell].status \in {"success", "error"}

\* a step changes at most one result, the one of the run that takes the step;
\* a run that ends records 'success' or 'error' in its own result
C29_Step ==
    /\ Cardinality(ChangedResults) <= 1
    /\ \A cell \in ChangedResults : StartsOrEnds(cell)
    /\ \A cell \in Cells :
          (simRuns[cell] # NullObject /\ simRuns'[cell] = NullObject) =>
              /\ sim'.results[cell].status \in {"success", "error"}
              /\ sim'.results[cell] # sim.results[cell]

\* C29: a run of handleSimulate(preset, mode) changes results[preset][mode]
\* only; whatever the interleaving of overlapping runs, each run records its
\* final result and no result is changed by the run of another pair.
C29_RunsChangeOwnResultOnly == [][C29_Step]_vars

\* the bad run of a card has recorded its result while the fix run of the
\* same card waits for the simulation response
C29_Witness ==
    /\ sim # NullObject
    /\ \E preset \in SimulationPresets :
          /\ sim.results[<<preset, "bad">>].status = "error"
          /\ sim.results[<<preset, "bad">>].raw # NullObject
          /\ sim.results[<<preset, "fix">>].status = "loading"
          /\ simRuns[<<preset, "fix">>] # NullObject
          /\ simRuns[<<preset, "fix">>].pc = "fetch"

\* a request of a run in flight returns or fails
SimSettle ==
    \/ SimAccountReturn
    \/ SimPrepareReturn
    \/ SimPaymasterReturn
    \/ SimSignReturn
    \/ SimResponse
    \/ SimFail

\* the page while the form is left as it is
NextSimRuns ==
    \/ SimulateClick
    \/ SimSettle

\* the page when every wallet, bundler, paymaster and simulation request
\* eventually returns or fails
SpecSimLive == InitSim /\ [][NextSimRuns]_vars /\ WF_vars(SimSettle)

\* no result is 'loading'
NoneLoading == \A cell \in Cells : sim.results[cell].status # "loading"

\* a 'loading' result stays, or becomes 'success' or 'error'
LoadingEndsSettled ==
    \A cell \in Cells :
        sim.results[cell].status = "loading"
            => sim'.results[cell].status \in {"loading", "success", "error"}

\* C30: a result set to 'loading' is eventually set to 'success' or 'error':
\* it is left only for one of the two, and time and again no result is 'loading'.
C30_LoadingEnds == [][LoadingEndsSettled]_vars /\ []<>NoneLoading

\* a run that failed after the paymaster data arrived has recorded 'error'
C30_Witness ==
    /\ sim # NullObject
    /\ \E cell \in Cells :
          /\ sim.results[cell].status = "error"
          /\ sim.results[cell].message = ThrownMessage
          /\ sim.results[cell].note # NoNote
          /\ simRuns[cell] = NullObject

-----------------------------------------------------------------------------
(* Prepare that fails: MintSponsoredCard and the Eip7702 page.             *)

\* the texts handlePrepareUserOperation leaves in payloadStatus when it
\* refuses or fails
EipPrepareFailures == {"sign first", "entry point required", "spender required", "error"}

\* nothing of a prepared operation is held
EipNothingPrepared(e) ==
    /\ e.preparedOp = NullObject
    /\ e.preparedUnsignedOp = NullObject
    /\ e.preparedContext = NullObject
    /\ e.gasEstimates = NullObject

MintNothingPrepared(m) ==
    /\ m.preparedUnsignedOp = NullObject
    /\ m.preparedContext = NullObject
    /\ m.gasEstimates = NullObject

\* the Eip7702 page: from the step in which a Prepare fails until the next
\* Prepare is called, nothing prepared is held and no Send starts
C22_EipStep ==
    (eip # NullObject /\ eip'.payloadStatus \in EipPrepareFailures)
    => /\ EipNothingPrepared(eip')
       /\ eipSubmit.pc = "idle" => eipSubmit'.pc = "idle"

\* MintSponsoredCard: the step in which a Prepare fails leaves nothing
\* prepared, and that lasts, with Send refused, until a Prepare completes
C22_MintStep ==
    mint # NullObject
    => /\ (\/ MintPrepareClick /\ mintPrepares' = mintPrepares
           \/ MintPrepareFail)
          => MintNothingPrepared(mint')
       /\ (MintNothingPrepared(mint) /\ ~MintNothingPrepared(mint'))
          => \E r \in mintPrepares \ mintPrepares' : mint'.preparedUnsignedOp.op = r.run
       /\ MintNothingPrepared(mint)
          => {r.run : r \in mintSends'} \subseteq {r.run : r \in mintSends}

\* C22: after a Prepare that fails at any step the prepared operation, the
\* prepared context and the gas estimates are all null, those of an earlier
\* Prepare included, and Send is refused until a later Prepare completes.
C22_FailedPrepareKeepsNothing == [][C22_EipStep /\ C22_MintStep]_vars

-----------------------------------------------------------------------------
(* The authorization a submitted operation carries (Eip7702 page).         *)

\* the operation carries the authorization held in state (as Prepare
\* attaches it, with the address in lower case)
CarriesHeldAuthorization(op, e) ==
    /\ e.authorization # NullObject
    /\ op.authorization = normalizedAuth(e.authorization)

\* a Send that starts, and an operation handed to eth_sendUserOperation,
\* carry the authorization held in state at that moment
C28_Step ==
    /\ (eipSubmit.pc = "idle" /\ eipSubmit'.pc # "idle")
       => CarriesHeldAuthorization(eipSubmit'.op, eip)
    /\ (/\ Len(requests') > Len(requests)
        /\ requests'[Len(requests')].method = "eth_sendUserOperation")
       => CarriesHeldAuthorization(requests'[Len(requests')].payload, eip)

\* C28: a UserOperation is only ever submitted with the authorization
\* currently held in state: once handleSignAuthorization has been started
\* again, handleSubmitUserOperation sends nothing until
\* handlePrepareUserOperation has completed again.
C28_SubmitsHeldAuthorization == [][C28_Step]_vars

-----------------------------------------------------------------------------
(* lib/viem getPaymasterClient as a sequence of calls.                     *)

\* calls of getPaymasterClient in one page load
MaxClientCalls == 3

\* the arguments: none, null, the empty string, the text of the anonymous
\* key, and two tokens
TokenArgumentSamples == {UndefinedToken, Null, "", "__anon__", "t1", "t2"}

\* one call on the Map clients, whose client objects are numbered in ids in
\* the order createPaymasterClient made them: the Map and the numbering
\* after the call, and the client returned
getPaymasterClientCall(clients, ids, tok, dev) ==
    LET key == ClientKey(tok)
        idsAfter == IF key \in DOMAIN clients THEN ids
                    ELSE (key :> Cardinality(DOMAIN ids) + 1) @@ ids
    IN  [clients |-> ClientsAfter(clients, tok, dev), ids |-> idsAfter,
         client |-> idsAfter[key]]

InitClients ==
    /\ PackIdle /\ EipIdle /\ MintIdle /\ SimIdle
    /\ token = Null /\ devToken \in DevTokens
    /\ paymasterClients = <<>> /\ requests = <<>>
    /\ input = Undefined
    /\ output = [ids |-> <<>>, calls |-> <<>>]

CallGetPaymasterClient ==
    /\ Len(output.calls) < MaxClientCalls
    /\ \E tok \in TokenArgumentSamples :
          LET call == getPaymasterClientCall(paymasterClients, output.ids, tok, devToken)
          IN  /\ paymasterClients' = call.clients
              /\ output' = [ids |-> call.ids,
                            calls |-> Append(output.calls,
                                             [token |-> tok, client |-> call.client])]
    /\ UNCHANGED <<packVars, eipVars, mintVars, simVars, token, devToken, requests, input>>

SpecClients == InitClients /\ [][CallGetPaymasterClient]_vars

\* the same token; null and undefined count as one
SameToken(t1, t2) == t1 = t2 \/ {t1, t2} \subseteq {Null, UndefinedToken}

\* C26: getPaymasterClient holds at most one client per distinct token, null
\* and undefined sharing one entry: a call with the same token returns the
\* same client, a call with a different token returns a different client, and
\* an entry is never replaced or removed.
C26_OneClientPerToken ==
    LET calls == output.calls
    IN  /\ \A i \in 1..Len(calls), j \in 1..Len(calls) :
              SameToken(calls[i].token, calls[j].token) <=> calls[i].client = calls[j].client
        /\ \A i \in 1..Len(calls) :
              /\ ClientKey(calls[i].token) \in DOMAIN paymasterClients
              /\ output.ids[ClientKey(calls[i].token)] = calls[i].client

-----------------------------------------------------------------------------
(* lib/viem getBundlerClient as a sequence of calls.                       *)

\* calls of getBundlerClient in one page load
MaxBundlerCalls == 3

\* no chain: the argument left out, or a chain resolveChain does not find
NoChain == 0
MainnetChainId == 1

\* the chainId arguments
ChainIdSamples == {NoChain, MainnetChainId, TenderlyChainId}
\* window.__viem.chains, as the set of the chains' ids; empty when it is no array
KnownChainsSamples == {{}, {MainnetChainId, TenderlyChainId}}

\* resolveChain(chainId): the chain of that id among the known ones
resolveChain(chainId, knownChains) ==
    IF chainId = NoChain THEN NoChain
    ELSE IF chainId \in knownChains THEN chainId
    ELSE NoChain

\* one call on the module's cachedBundlerClient (object number created, when
\* not null): it throws when VITE_BUNDLER_URL is not configured and nothing
\* is cached, it builds a client for resolveChain(chainId) when nothing is
\* cached, and it returns what is cached
getBundlerClient(cached, created, chainId, env) ==
    IF cached = NullObject
    THEN IF env.bundlerUrl = <<>>
         THEN [ok |-> FALSE, cached |-> cached, created |-> created, client |-> NullObject]
         ELSE LET client == [object |-> created + 1,
                             chain |-> resolveChain(chainId, env.knownChains)]
              IN  [ok |-> TRUE, cached |-> client, created |-> created + 1,
                   client |-> client]
    ELSE [ok |-> TRUE, cached |-> cached, created |-> created, client |-> cached]

InitBundler ==
    /\ PackIdle /\ EipIdle /\ MintIdle /\ SimIdle
    /\ token = Null /\ devToken = Null
    /\ paymasterClients = <<>> /\ requests = <<>>
    /\ \E url \in {<<>>, <<104>>}, knownChains \in KnownChainsSamples :
          input = [bundlerUrl |-> url, knownChains |-> knownChains]
    /\ output = [cachedBundlerClient |-> NullObject, created |-> 0, calls |-> <<>>]

CallGetBundlerClient ==
    /\ Len(output.calls) < MaxBundlerCalls
    /\ \E chainId \in ChainIdSamples :
          LET call == getBundlerClient(output.cachedBundlerClient, output.created,
                                       chainId, input)
          IN  output' = [cachedBundlerClient |-> call.cached, created |-> call.created,
                         calls |-> Append(output.calls,
                                          [chainId |-> chainId, ok |-> call.ok,
                                           client |-> call.client])]
    /\ UNCHANGED <<packVars, eipVars, mintVars, simVars, pmVars, input>>

SpecBundler == InitBundler /\ [][CallGetBundlerClient]_vars

\* C27: the memoized bundler client is keyed by chain id: getBundlerClient(c)
\* returns a client constructed for chain c, and two calls with different
\* chain ids never return the same client.
C27_BundlerClientPerChain ==
    LET calls == output.calls
    IN  \A i \in 1..Len(calls), j \in 1..Len(calls) :
            (calls[i].ok /\ calls[j].ok)
            => /\ calls[i].client.chain = resolveChain(calls[i].chainId, input.knownChains)
               /\ calls[i].chainId # calls[j].chainId
                  => calls[i].client.object # calls[j].client.object

-----------------------------------------------------------------------------
(* lib/api requestPaymasterStubData as a call on objects.                  *)

\* calls of requestPaymasterStubData with the same request
MaxStubCalls == 2

\* the objects the caller and the paymaster client hand in: the request, its
\* userOperation overrides (NoRef when left out), and the raw response of
\* each of the two calls
NoRef == 0
RequestRef == 1
OverridesRef == 2
RawRef(call) == 2 + call

\* typeof value === "bigint", for a field that holds a bigint (its
\* hexadecimal digits), a "0x" string or undefined
IsBigint(value) == value # Undefined /\ \A i \in 1..Len(value) : value[i] \in HexDigit

\* viem toHex(value) of a bigint: "0x" and the digits without leading zeros
toHexOfBigint(value) == <<0, X>> \o (IF Strip(value) = <<>> THEN <<0>> ELSE Strip(value))

\* overrides?.[key] ?? fallback
OverrideOr(overrides, key, fallback) ==
    IF overrides # NullObject /\ overrides[key] # Undefined THEN overrides[key] ELSE fallback

\* buildUserOperation(overrides): a new object; a key it does not set is undefined
buildUserOperation(overrides) ==
    [sender |-> OverrideOr(overrides, "sender", <<0, X>> \o Zeros(40)),
     nonce |-> OverrideOr(overrides, "nonce", <<0>>),
     callData |-> OverrideOr(overrides, "callData", <<0, X>>),
     callGasLimit |-> OverrideOr(overrides, "callGasLimit", Undefined),
     paymasterPostOpGasLimit |-> OverrideOr(overrides, "paymasterPostOpGasLimit", Undefined)]

\* normalizePaymasterResult(result) on the heap: the result itself when it is
\* no object, else a new object with the two gas limits in hexadecimal
normalizePaymasterResult(heap, result, copy) ==
    IF result = NoRef \/ heap[result] = NullObject THEN [heap |-> heap, result |-> result]
    ELSE LET raw == heap[result]
             hex(value) == IF IsBigint(value) THEN toHexOfBigint(value) ELSE value
         IN  [heap |-> (copy :> [raw EXCEPT
                                    !.paymasterPostOpGasLimit = hex(@),
                                    !.paymasterVerificationGasLimit = hex(@)]) @@ heap,
              result |-> copy]

\* requestPaymasterStubData(request), the response of the paymaster being the
\* object raw: the client of getPaymasterClient(), the parameters built from
\* the request, and the normalised result
requestPaymasterStubData(heap, clients, dev, request, raw) ==
    LET overrides == IF heap[request].userOperation = NoRef THEN NullObject
                     ELSE heap[heap[request].userOperation]
        fresh == CHOOSE r \in 1..(Cardinality(DOMAIN heap) + 1) : r \notin DOMAIN heap
        params == [userOperation |-> buildUserOperation(overrides),
                   chainId |-> heap[request].chainId,
                   entryPointAddress |-> heap[request].entryPoint]
        normalised == normalizePaymasterResult(heap, raw, fresh)
    IN  [heap |-> normalised.heap, result |-> normalised.result, params |-> params,
         clients |-> ClientsAfter(clients, UndefinedToken, dev),
         client |-> getPaymasterClient(clients, UndefinedToken, dev)]

OverridesSamples ==
    {[sender |-> Undefined, nonce |-> Undefined, callData |-> Undefined,
      callGasLimit |-> Undefined, paymasterPostOpGasLimit |-> Undefined],
     [sender |-> <<0, X>> \o Fs(40), nonce |-> <<7>>, callData |-> <<0, X, 10, 11>>,
      callGasLimit |-> <<1, 0>>, paymasterPostOpGasLimit |-> <<0>>]}

\* the raw responses: gas limits as bigints, as strings, or left out
RawSamples ==
    {[paymaster |-> <<0, X>> \o Fs(40), paymasterData |-> <<0, X, 1, 2>>,
      paymasterPostOpGasLimit |-> <<0, 12, 3>>, paymasterVerificationGasLimit |-> <<0>>],
     [paymaster |-> <<0, X>> \o Fs(40), paymasterData |-> <<0, X>>,
      paymasterPostOpGasLimit |-> <<0, X, 12, 3>>, paymasterVerificationGasLimit |-> Undefined]}

\* the Map when the first call is made: empty, or with the anonymous client
\* or the client of a token, made by an earlier caller
InitStub ==
    /\ PackIdle /\ EipIdle /\ MintIdle /\ SimIdle
    /\ token = Null /\ devToken \in DevTokens /\ requests = <<>>
    /\ paymasterClients \in {<<>>, ClientsAfter(<<>>, UndefinedToken, devToken),
                             ClientsAfter(<<>>, "t1", devToken)}
    /\ input = Undefined
    /\ \E overrides \in OverridesSamples \cup {NullObject},
          raws \in [1..MaxStubCalls -> RawSamples \cup {NullObject}] :
          output =
              [heap |-> (RequestRef :>
                            [chainId |-> TenderlyChainId, entryPoint |-> entryPoint08Address,
                             userOperation |-> IF overrides = NullObject THEN NoRef
                                               ELSE OverridesRef])
                        @@ (IF overrides = NullObject THEN <<>>
                            ELSE OverridesRef :> overrides)
                        @@ [r \in {RawRef(c) : c \in 1..MaxStubCalls} |-> raws[r - 2]],
               calls |-> <<>>]

CallRequestPaymasterStubData ==
    /\ Len(output.calls) < MaxStubCalls
    /\ LET raw == RawRef(Len(output.calls) + 1)
           call == requestPaymasterStubData(output.heap, paymasterClients, devToken,
                                            RequestRef, raw)
       IN  /\ paymasterClients' = call.clients
           /\ output' = [heap |-> call.heap,
                         calls |-> Append(output.calls,
                                          [raw |-> raw, result |-> call.result,
                                           params |-> call.params, client |-> call.client])]
    /\ UNCHANGED <<packVars, eipVars, mintVars, simVars, token, devToken, requests, input>>

SpecStub == InitStub /\ [][CallRequestPaymasterStubData]_vars

\* C24: a call of requestPaymasterStubData changes no shared state: the
\* request object and its userOperation overrides are as before, the raw
\* response is as the client returned it and the result is another object,
\* and the paymaster client cache is the same before and after the call.
C24_Step ==
    Len(output'.calls) > Len(output.calls)
    => LET call == output'.calls[Len(output'.calls)]
       IN  /\ \A r \in DOMAIN output.heap : output'.heap[r] = output.heap[r]
           /\ output.heap[call.raw] # NullObject => call.result \notin DOMAIN output.heap
           /\ paymasterClients' = paymasterClients

C24_StubRequestChangesNothingShared == [][C24_Step]_vars

-----------------------------------------------------------------------------
(* The allowlist registrations: handleRegisterAllowlist of the Eip7702     *)
(* page and allowlistNewContract of DeployERC721Card.                      *)

\* registrations in one session
MaxRegistrations == 2

\* what a request of lib/api comes to: a 2xx response, an ApiError with the
\* status of the response, or the error fetch itself rejects with (status 0)
FetchRejected == 0
StatusOk == 200
StatusConflict == 409
StatusNotFound == 404
StatusServerError == 500
ApiStatusSamples == {FetchRejected, StatusOk, StatusConflict, StatusNotFound, StatusServerError}

\* error instanceof ApiError && error.status === 409
IsConflict(status) == status = StatusConflict

AllowlistFlows == {"handleRegisterAllowlist", "allowlistNewContract"}

\* the request a flow makes first and the one it makes second
FirstRequest(flow) == IF flow = "handleRegisterAllowlist" THEN "addUser" ELSE "addContract"
SecondRequest(flow) == IF flow = "handleRegisterAllowlist" THEN "addContract" ELSE "addUser"

\* whether the flow goes on after its request pc came to status: both
\* requests of handleRegisterAllowlist swallow a 409 in their .catch;
\* allowlistNewContract rethrows every error of addContract and returns on a
\* 409 of addUser
GoesOn(flow, pc, status) ==
    \/ status = StatusOk
    \/ IsConflict(status) /\ (flow = "handleRegisterAllowlist" \/ pc = "addUser")

InitAllowlist ==
    /\ PackIdle /\ EipIdle /\ MintIdle /\ SimIdle
    /\ token \in {Null, "t1"} /\ devToken = Null
    /\ paymasterClients = <<>> /\ requests = <<>>
    /\ input = Undefined
    /\ output = [current |-> NullObject, runs |-> <<>>]

AllowlistFrame ==
    UNCHANGED <<packVars, eipVars, mintVars, simVars, pmVars, input>>

\* a flow is called: without a token it ends before any request
\* (setAllowlistStatus("Sign in ..."), or the thrown 'Missing admin
\* authorization token'), else its first request is sent
StartRegistration ==
    /\ output.current = NullObject
    /\ Len(output.runs) < MaxRegistrations
    /\ \E flow \in AllowlistFlows :
          IF token = Null
          THEN output' = [output EXCEPT !.runs =
                             Append(@, [flow |-> flow, calls |-> <<>>,
                                        outcome |-> IF flow = "handleRegisterAllowlist"
                                                    THEN "refused" ELSE "error"])]
          ELSE output' = [output EXCEPT !.current =
                             [flow |-> flow, pc |-> FirstRequest(flow), calls |-> <<>>]]
    /\ AllowlistFrame

\* the request the flow awaits has come to status
RegistrationResponse ==
    /\ output.current # NullObject
    /\ \E status \in ApiStatusSamples :
          LET run == output.current
              calls == Append(run.calls, [request |-> run.pc, status |-> status])
              Ended(outcome) ==
                  output' = [current |-> NullObject,
                             runs |-> Append(output.runs,
                                             [flow |-> run.flow, calls |-> calls,
                                              outcome |-> outcome])]
          IN  IF ~GoesOn(run.flow, run.pc, status) THEN Ended("error")
              ELSE IF run.pc = FirstRequest(run.flow)
              THEN output' = [output EXCEPT !.current =
                                 [flow |-> run.flow, pc |-> SecondRequest(run.flow),
                                  calls |-> calls]]
              ELSE Ended("ok")
    /\ AllowlistFrame

NextAllowlist ==
    \/ StartRegistration
    \/ RegistrationResponse

SpecAllowlist == InitAllowlist /\ [][NextAllowlist]_vars

\* C23: in every allowlist registration a 409 of addUser or of addContract is
\* not fatal (the remaining request is still made and the flow ends without
\* an error), and any other failure ends the flow with an error.
C23_ConflictIsNotFatal ==
    \A i \in 1..Len(output.runs) :
        LET run == output.runs[i]
            Passed(call) == call.status = StatusOk \/ IsConflict(call.status)
        IN  run.calls # <<>>
            => /\ (\A k \in 1..Len(run.calls) : Passed(run.calls[k]))
                  => (Len(run.calls) = 2 /\ run.outcome = "ok")
               /\ (\E k \in 1..Len(run.calls) : ~Passed(run.calls[k]))
                  => (~Passed(run.calls[Len(run.calls)]) /\ run.outcome = "error")

====
